---------------------------- MODULE Spec2Model ----------------------------
(***************************************************************************)
(* Trade Decision & Risk Engine of CryptoLeverageTradingBot.               *)
(*                                                                         *)
(*   RiskManager      src/src/risk/risk_manager.py                         *)
(*   ConsensusEngine  src/src/analysis/consensus_engine.py                 *)
(*                                                                         *)
(* Numbers.  The program computes with Python floats.  The model computes  *)
(* with exact rationals <<n, d>> (d > 0, lowest terms), i.e. the real      *)
(* number each float expression denotes; rounding of the last bit is not   *)
(* modelled.  A float division by zero raises ZeroDivisionError in Python  *)
(* and is modelled as a raise.                                             *)
(*                                                                         *)
(* Time.  datetime.now() (Position.entry_time, TradeRecommendation         *)
(* .timestamp) is a logical clock that ticks on every read.                *)
(***************************************************************************)
EXTENDS Integers, Sequences, FiniteSets, TLC

(***************************************************************************)
(* Exact rational arithmetic.                                              *)
(***************************************************************************)
Abs(x) == IF x < 0 THEN -x ELSE x

RECURSIVE Gcd(_, _)
Gcd(a, b) == IF b = 0 THEN a ELSE Gcd(b, a % b)

Lcm(a, b) == (a \div Gcd(a, b)) * b

\* n/d in lowest terms with a positive denominator (d # 0).
Q(n, d) ==
    LET g == Gcd(Abs(n), Abs(d))
        s == IF d < 0 THEN -1 ELSE 1
    IN  <<(s * n) \div g, (s * d) \div g>>

I(n) == <<n, 1>>

Num(x) == x[1]
Den(x) == x[2]

RAdd(x, y) ==
    LET l == Lcm(Den(x), Den(y))
    IN  Q(Num(x) * (l \div Den(x)) + Num(y) * (l \div Den(y)), l)

RNeg(x) == <<-Num(x), Den(x)>>

RSub(x, y) == RAdd(x, RNeg(y))

RMul(x, y) ==
    LET a == Q(Num(x), Den(y))
        b == Q(Num(y), Den(x))
    IN  <<Num(a) * Num(b), Den(a) * Den(b)>>

IsZero(x) == Num(x) = 0

\* x / y for y # 0.
RDiv(x, y) == RMul(x, Q(Den(y), Num(y)))

RLt(x, y) ==
    LET l == Lcm(Den(x), Den(y))
    IN  Num(x) * (l \div Den(x)) < Num(y) * (l \div Den(y))

RLe(x, y) == ~RLt(y, x)
RGt(x, y) == RLt(y, x)
RGe(x, y) == ~RLt(x, y)

RMin(x, y) == IF RLt(y, x) THEN y ELSE x
RMax(x, y) == IF RGt(y, x) THEN y ELSE x
RAbs(x) == <<Abs(Num(x)), Den(x)>>

\* round(x) to the nearest integer, ties to even: what a float format
\* specification does with the digits it drops.
RoundHalfEven(x) ==
    LET n == Num(x)
        d == Den(x)
        f == n \div d
        r2 == 2 * (n - f * d)
    IN  IF r2 < d THEN f
        ELSE IF r2 > d THEN f + 1
        ELSE IF f % 2 = 0 THEN f ELSE f + 1

\* f"{x:.2%}": the number of hundredths of a percent printed.
FormatPercent2(x) == RoundHalfEven(RMul(x, I(10000)))

\* f"{x:.2f}": the number of hundredths printed.
FormatFixed2(x) == RoundHalfEven(RMul(x, I(100)))

\* sum() of a list. Rational addition is exact and associative, so the sum
\* is taken by halves, which keeps the depth of the evaluation logarithmic.
RECURSIVE RSum(_)
RSum(s) ==
    IF s = <<>> THEN I(0)
    ELSE IF Len(s) = 1 THEN s[1]
    ELSE LET half == Len(s) \div 2
         IN  RAdd(RSum(SubSeq(s, 1, half)), RSum(SubSeq(s, half + 1, Len(s))))

\* max() of a non-empty list.
RECURSIVE RMaxOf(_)
RMaxOf(s) == IF Len(s) = 1 THEN s[1] ELSE RMax(s[1], RMaxOf(Tail(s)))

(***************************************************************************)
(* Configuration (src/src/config/settings.py) and RiskManager.__init__.    *)
(***************************************************************************)
max_position_size == I(1000)
risk_per_trade == Q(2, 100)
max_concurrent_positions == 3
trailing_stop_percentage == Q(3, 100)
max_portfolio_risk == Q(6, 100)
correlation_threshold == Q(7, 10)
min_position_size == I(10)
\* Mutant: a 20% stop distance is tolerated.
max_stop_loss_loose == Q(2, 10)
max_stop_loss == Q(1, 10)
kelly_cap == Q(25, 100)
trailing_profit_threshold == Q(5, 100)

\* An asset identifier is a Python str: the sequence of its characters.
BTCUSDT == <<"B", "T", "C", "U", "S", "D", "T">>
BTCBUSD == <<"B", "T", "C", "B", "U", "S", "D">>
ETHUSDT == <<"E", "T", "H", "U", "S", "D", "T">>
SOLUSDT == <<"S", "O", "L", "U", "S", "D", "T">>
BNBUSDT == <<"B", "N", "B", "U", "S", "D", "T">>

\* symbol[:3]
Prefix3(symbol) == SubSeq(symbol, 1, IF Len(symbol) < 3 THEN Len(symbol) ELSE 3)

(***************************************************************************)
(* A call either returns a value or raises.                                *)
(***************************************************************************)
Return(v) == [exc |-> "none", val |-> v]
Raise(e) == [exc |-> e, val |-> I(0)]

(***************************************************************************)
(* RiskManager._calculate_position_size                                    *)
(***************************************************************************)
\* Mutant: the Kelly fraction is floored at 0 but not capped.
kelly_fraction_uncapped(recommendation) ==
    LET win_probability == recommendation.confidence
        win_loss_ratio == recommendation.risk_reward_ratio
    IN  IF RGt(win_loss_ratio, I(0))
        THEN RMax(I(0),
                  RDiv(RSub(RMul(win_probability, win_loss_ratio),
                            RSub(I(1), win_probability)),
                       win_loss_ratio))
        ELSE I(0)

\* The Kelly fraction of a recommendation (lines 104-111).
kelly_fraction(recommendation) ==
    LET win_probability == recommendation.confidence
        win_loss_ratio == recommendation.risk_reward_ratio
    IN  IF RGt(win_loss_ratio, I(0))
        THEN RMax(I(0),
                  RMin(RDiv(RSub(RMul(win_probability, win_loss_ratio),
                                 RSub(I(1), win_probability)),
                            win_loss_ratio),
                       kelly_cap))
        ELSE I(0)

\* max_loss: the stop distance on the losing side, signed (lines 119-122).
max_loss(recommendation, current_price) ==
    IF recommendation.action = "LONG"
    THEN RSub(current_price, recommendation.stop_loss)
    ELSE RSub(recommendation.stop_loss, current_price)

\* Mutant: the risk-per-trade ceiling is left out of the sizing.
_calculate_position_size_unbudgeted(recommendation, current_price, account_balance) ==
    LET base_size == RMul(account_balance, recommendation.position_size_percent)
        kelly_size == RMul(account_balance, kelly_fraction(recommendation))
        loss == max_loss(recommendation, current_price)
    IN  IF IsZero(current_price) \/ IsZero(loss)
        THEN Raise("ZeroDivisionError")
        ELSE Return(RMin(base_size, kelly_size))

_calculate_position_size(recommendation, current_price, account_balance) ==
    LET base_size == RMul(account_balance, recommendation.position_size_percent)
        kelly_size == RMul(account_balance, kelly_fraction(recommendation))
        position_size == RMin(base_size, kelly_size)
        loss == max_loss(recommendation, current_price)
    IN  IF IsZero(current_price) \/ IsZero(loss)
        THEN Raise("ZeroDivisionError")
        ELSE Return(RMin(position_size,
                         RDiv(RMul(account_balance, risk_per_trade),
                              RDiv(loss, current_price))))

(***************************************************************************)
(* RiskManager._calculate_portfolio_risk                                   *)
(***************************************************************************)
_get_total_portfolio_value == I(10000)

position_risk(position) ==
    IF position.side = "LONG"
    THEN RDiv(RSub(position.current_price, position.stop_loss), position.current_price)
    ELSE RDiv(RSub(position.stop_loss, position.current_price), position.current_price)

new_risk(recommendation) ==
    IF recommendation.action = "LONG"
    THEN RDiv(RSub(recommendation.entry_price, recommendation.stop_loss),
              recommendation.entry_price)
    ELSE RDiv(RSub(recommendation.stop_loss, recommendation.entry_price),
              recommendation.entry_price)

_calculate_portfolio_risk(book, new_position_size, recommendation) ==
    IF (\E i \in 1..Len(book) : IsZero(book[i].current_price))
       \/ IsZero(recommendation.entry_price)
    THEN Raise("ZeroDivisionError")
    ELSE Return(RAdd(
           RSum([i \in 1..Len(book) |->
                   RMul(position_risk(book[i]),
                        RDiv(book[i].size, _get_total_portfolio_value))]),
           RMul(new_risk(recommendation),
                RDiv(new_position_size, _get_total_portfolio_value))))

(***************************************************************************)
(* RiskManager._check_correlation_risk                                     *)
(***************************************************************************)
\* Mutant: only the same symbol counts as correlated.
correlation_score_symbol_only(position, symbol) ==
    IF position.symbol = symbol THEN I(1) ELSE Q(3, 10)

correlation_score(position, symbol) ==
    IF position.symbol = symbol THEN I(1)
    ELSE IF Prefix3(position.symbol) = Prefix3(symbol) THEN Q(8, 10)
    ELSE Q(3, 10)

_check_correlation_risk(book, symbol) ==
    IF book = <<>> THEN I(0)
    ELSE RMaxOf([i \in 1..Len(book) |-> correlation_score(book[i], symbol)])

(***************************************************************************)
(* RiskManager.validate_trade                                              *)
(*                                                                         *)
(* The value of a call: exc ("none" when it returns), and the returned     *)
(* triple (ok, reason, size).  A reason is its fixed text and the number   *)
(* formatted into it (0 when the text has none).                           *)
(***************************************************************************)
Rejected(text, number) ==
    [exc |-> "none", ok |-> FALSE, reason |-> text, number |-> number, size |-> I(0)]

Accepted(position_size) ==
    [exc |-> "none", ok |-> TRUE, reason |-> "Trade validated", number |-> 0,
     size |-> position_size]

Raised(e) ==
    [exc |-> e, ok |-> FALSE, reason |-> "", number |-> 0, size |-> I(0)]

\* risk_percentage (lines 82-85); current_price # 0 once sizing has returned.
risk_percentage(recommendation, current_price) ==
    RDiv(max_loss(recommendation, current_price), current_price)

\* Mutant: the limit compared with > instead of >=.
at_position_limit_off_by_one(book) == Len(book) > max_concurrent_positions

\* Lines 55-57: the concurrent positions limit.
at_position_limit(book) == Len(book) >= max_concurrent_positions

\* Mutant: the computed size is not capped.
capped_size_uncapped(position_size) == position_size

\* Lines 64-66: the cap at max_position_size.
capped_size(position_size) ==
    IF RGt(position_size, max_position_size) THEN max_position_size ELSE position_size

\* Mutant: the stop distance is checked before the correlation.
validate_sized_stop_first(book, recommendation, current_price, position_size) ==
    LET portfolio_risk == _calculate_portfolio_risk(book, position_size, recommendation)
        correlation_risk == _check_correlation_risk(book, recommendation.symbol)
        pct == risk_percentage(recommendation, current_price)
    IN  IF portfolio_risk.exc # "none" THEN Raised(portfolio_risk.exc)
        ELSE IF RGt(portfolio_risk.val, max_portfolio_risk)
        THEN Rejected("Portfolio risk too high", FormatPercent2(portfolio_risk.val))
        ELSE IF RGt(pct, max_stop_loss)
        THEN Rejected("Stop loss too far", FormatPercent2(pct))
        ELSE IF RGt(correlation_risk, correlation_threshold)
        THEN Rejected("High correlation with existing positions",
                      FormatFixed2(correlation_risk))
        ELSE Accepted(position_size)

\* Lines 71-90, with the sized amount in hand.
validate_sized(book, recommendation, current_price, position_size) ==
    LET portfolio_risk == _calculate_portfolio_risk(book, position_size, recommendation)
        correlation_risk == _check_correlation_risk(book, recommendation.symbol)
        pct == risk_percentage(recommendation, current_price)
    IN  IF portfolio_risk.exc # "none" THEN Raised(portfolio_risk.exc)
        ELSE IF RGt(portfolio_risk.val, max_portfolio_risk)
        THEN Rejected("Portfolio risk too high", FormatPercent2(portfolio_risk.val))
        ELSE IF RGt(correlation_risk, correlation_threshold)
        THEN Rejected("High correlation with existing positions",
                      FormatFixed2(correlation_risk))
        ELSE IF RGt(pct, max_stop_loss)
        THEN Rejected("Stop loss too far", FormatPercent2(pct))
        ELSE Accepted(position_size)

\* Mutant: the position count is checked after sizing and the minimum size.
validate_trade_count_late(book, recommendation, current_price, account_balance) ==
    LET sized == _calculate_position_size(recommendation, current_price,
                                          account_balance)
    IN  IF sized.exc # "none" THEN Raised(sized.exc)
        ELSE IF RLt(capped_size(sized.val), min_position_size)
        THEN Rejected("Position size too small", 0)
        ELSE IF at_position_limit(book)
        THEN Rejected("Maximum concurrent positions reached", 0)
        ELSE validate_sized(book, recommendation, current_price,
                            capped_size(sized.val))

validate_trade(book, recommendation, current_price, account_balance) ==
    IF at_position_limit(book)
    THEN Rejected("Maximum concurrent positions reached", 0)
    ELSE LET sized == _calculate_position_size(recommendation, current_price,
                                               account_balance)
         IN  IF sized.exc # "none" THEN Raised(sized.exc)
             ELSE IF RLt(capped_size(sized.val), min_position_size)
             THEN Rejected("Position size too small", 0)
             ELSE validate_sized(book, recommendation, current_price,
                                 capped_size(sized.val))

(***************************************************************************)
(* RiskManager.add_position                                                *)
(***************************************************************************)
Position(recommendation, actual_size, now) ==
    [symbol |-> recommendation.symbol,
     side |-> recommendation.action,
     entry_price |-> recommendation.entry_price,
     current_price |-> recommendation.entry_price,
     size |-> actual_size,
     stop_loss |-> recommendation.stop_loss,
     take_profit |-> recommendation.target_price,
     entry_time |-> now,
     pnl |-> I(0),
     pnl_percentage |-> I(0)]

add_position(book, recommendation, actual_size, now) ==
    Append(book, Position(recommendation, actual_size, now))

(***************************************************************************)
(* RiskManager.update_positions                                            *)
(*                                                                         *)
(* price_updates is a dict: a function from some symbols to prices.  The   *)
(* loop stops at the first position whose PnL division raises (entry       *)
(* price 0), with that position's current_price already assigned.          *)
(***************************************************************************)
\* Mutant: the update also drags the stop-loss along with the price.
updated_position_moving_stop(position, price) ==
    LET diff == IF position.side = "LONG"
                THEN RSub(price, position.entry_price)
                ELSE RSub(position.entry_price, price)
    IN  [position EXCEPT
           !.current_price = price,
           !.stop_loss = RAdd(position.stop_loss, RSub(price, position.current_price)),
           !.pnl = RDiv(RMul(diff, position.size), position.entry_price),
           !.pnl_percentage = RDiv(diff, position.entry_price)]

updated_position(position, price) ==
    LET diff == IF position.side = "LONG"
                THEN RSub(price, position.entry_price)
                ELSE RSub(position.entry_price, price)
    IN  [position EXCEPT
           !.current_price = price,
           !.pnl = RDiv(RMul(diff, position.size), position.entry_price),
           !.pnl_percentage = RDiv(diff, position.entry_price)]

\* The index of the first position on which the loop raises, 0 if none.
first_raising(book, price_updates) ==
    LET bad == {i \in 1..Len(book) :
                  /\ book[i].symbol \in DOMAIN price_updates
                  /\ IsZero(book[i].entry_price)}
    IN  IF bad = {} THEN 0 ELSE CHOOSE i \in bad : \A j \in bad : i <= j

update_positions(book, price_updates) ==
    LET stop == first_raising(book, price_updates)
    IN  [i \in 1..Len(book) |->
           IF book[i].symbol \notin DOMAIN price_updates THEN book[i]
           ELSE IF stop = 0 \/ i < stop
                THEN updated_position(book[i], price_updates[book[i].symbol])
           ELSE IF i = stop
                THEN [book[i] EXCEPT !.current_price = price_updates[book[i].symbol]]
           ELSE book[i]]

(***************************************************************************)
(* RiskManager.check_stop_loss_take_profit                                 *)
(***************************************************************************)
\* Mutant: the take-profit level is tested before the stop-loss level.
exit_reason_target_first(position) ==
    IF position.side = "LONG"
    THEN IF RGe(position.current_price, position.take_profit) THEN "TAKE_PROFIT"
         ELSE IF RLe(position.current_price, position.stop_loss) THEN "STOP_LOSS"
         ELSE "NONE"
    ELSE IF RLe(position.current_price, position.take_profit) THEN "TAKE_PROFIT"
         ELSE IF RGe(position.current_price, position.stop_loss) THEN "STOP_LOSS"
         ELSE "NONE"

exit_reason(position) ==
    IF position.side = "LONG"
    THEN IF RLe(position.current_price, position.stop_loss) THEN "STOP_LOSS"
         ELSE IF RGe(position.current_price, position.take_profit) THEN "TAKE_PROFIT"
         ELSE "NONE"
    ELSE IF RGe(position.current_price, position.stop_loss) THEN "STOP_LOSS"
         ELSE IF RLe(position.current_price, position.take_profit) THEN "TAKE_PROFIT"
         ELSE "NONE"

RECURSIVE check_stop_loss_take_profit(_)
check_stop_loss_take_profit(book) ==
    IF book = <<>> THEN <<>>
    ELSE (IF exit_reason(Head(book)) = "NONE" THEN <<>>
          ELSE << <<Head(book), exit_reason(Head(book))>> >>)
         \o check_stop_loss_take_profit(Tail(book))

(***************************************************************************)
(* RiskManager.apply_trailing_stop                                         *)
(***************************************************************************)
\* Mutant: the candidate stop replaces the stop in place unconditionally.
trailed_position_unguarded(position) ==
    IF RGt(position.pnl_percentage, trailing_profit_threshold)
    THEN [position EXCEPT !.stop_loss =
            RMul(position.current_price,
                 IF position.side = "LONG"
                 THEN RSub(I(1), trailing_stop_percentage)
                 ELSE RAdd(I(1), trailing_stop_percentage))]
    ELSE position

\* Mutant: the candidate stop is put on the far side of the price.
trailed_position_wrong_side(position) ==
    IF RGt(position.pnl_percentage, trailing_profit_threshold)
    THEN [position EXCEPT !.stop_loss =
            RMul(position.current_price,
                 IF position.side = "LONG"
                 THEN RAdd(I(1), trailing_stop_percentage)
                 ELSE RSub(I(1), trailing_stop_percentage))]
    ELSE position

trailed_position(position) ==
    IF RGt(position.pnl_percentage, trailing_profit_threshold)
    THEN IF position.side = "LONG"
         THEN LET new_stop == RMul(position.current_price,
                                   RSub(I(1), trailing_stop_percentage))
              IN  IF RGt(new_stop, position.stop_loss)
                  THEN [position EXCEPT !.stop_loss = new_stop]
                  ELSE position
         ELSE LET new_stop == RMul(position.current_price,
                                   RAdd(I(1), trailing_stop_percentage))
              IN  IF RLt(new_stop, position.stop_loss)
                  THEN [position EXCEPT !.stop_loss = new_stop]
                  ELSE position
    ELSE position

apply_trailing_stop(book) == [i \in 1..Len(book) |-> trailed_position(book[i])]

(***************************************************************************)
(* RiskManager.close_position                                              *)
(*                                                                         *)
(* list.remove drops the first element equal to the argument (dataclass    *)
(* equality: all fields) and raises ValueError when there is none, before  *)
(* the return is recorded.                                                 *)
(***************************************************************************)
index_of(book, position) ==
    LET hits == {i \in 1..Len(book) : book[i] = position}
    IN  IF hits = {} THEN 0 ELSE CHOOSE i \in hits : \A j \in hits : i <= j

\* Mutant: the last position is dropped, whichever was asked for.
list_remove_last(book, position) == SubSeq(book, 1, Len(book) - 1)

list_remove(book, position) ==
    LET k == index_of(book, position)
    IN  [i \in 1..(Len(book) - 1) |-> IF i < k THEN book[i] ELSE book[i + 1]]

\* Mutant: the return is recorded before the position is looked up.
close_position_append_first(book, returns, position) ==
    IF index_of(book, position) = 0
    THEN [exc |-> "ValueError", positions |-> book,
          historical_returns |-> Append(returns, position.pnl_percentage)]
    ELSE [exc |-> "none", positions |-> list_remove(book, position),
          historical_returns |-> Append(returns, position.pnl_percentage)]

\* The book and the history after the call, and whether it raised.
close_position(book, returns, position) ==
    IF index_of(book, position) = 0
    THEN [exc |-> "ValueError", positions |-> book, historical_returns |-> returns]
    ELSE [exc |-> "none", positions |-> list_remove(book, position),
          historical_returns |-> Append(returns, position.pnl_percentage)]

(***************************************************************************)
(* RiskManager.get_risk_metrics                                            *)
(*                                                                         *)
(* numpy arithmetic on the historical returns, for returns above -1 (the   *)
(* running maximum of the cumulative product is then positive).  The       *)
(* Sharpe ratio mean / (std + 1e-6) * sqrt(252) is kept as the mean and    *)
(* the population variance it is computed from.                            *)
(***************************************************************************)
var_history_threshold == 20

RECURSIVE cumprod(_, _)
cumprod(returns, product) ==
    IF returns = <<>> THEN <<>>
    ELSE LET next == RMul(product, RAdd(I(1), Head(returns)))
         IN  <<next>> \o cumprod(Tail(returns), next)

RECURSIVE maximum_accumulate(_, _)
maximum_accumulate(values, highest) ==
    IF values = <<>> THEN <<>>
    ELSE LET next == RMax(highest, Head(values))
         IN  <<next>> \o maximum_accumulate(Tail(values), next)

RECURSIVE RMinOf(_)
RMinOf(s) == IF Len(s) = 1 THEN s[1] ELSE RMin(s[1], RMinOf(Tail(s)))

drawdown(returns) ==
    LET cumulative_returns == cumprod(returns, I(1))
        running_max == maximum_accumulate(cumulative_returns, cumulative_returns[1])
    IN  [i \in 1..Len(returns) |->
           RDiv(RSub(cumulative_returns[i], running_max[i]), running_max[i])]

RECURSIVE sorted(_)
sorted(s) ==
    IF s = <<>> THEN <<>>
    ELSE LET rest == sorted(Tail(s))
             below == SelectSeq(rest, LAMBDA x : RLt(x, Head(s)))
             above == SelectSeq(rest, LAMBDA x : ~RLt(x, Head(s)))
         IN  below \o <<Head(s)>> \o above

\* np.percentile(a, q), linear interpolation between the two nearest ranks.
percentile(a, q) ==
    LET ordered == sorted(a)
        rank == RMul(I(Len(a) - 1), Q(q, 100))
        lower == Num(rank) \div Den(rank)
        gamma == RSub(rank, I(lower))
    IN  IF lower + 1 >= Len(a) THEN ordered[Len(a)]
        ELSE RAdd(ordered[lower + 1],
                  RMul(gamma, RSub(ordered[lower + 2], ordered[lower + 1])))

var_95(returns) ==
    IF Len(returns) > var_history_threshold
    THEN percentile(returns, 5)
    ELSE RNeg(risk_per_trade)

mean(returns) == RDiv(RSum(returns), I(Len(returns)))

sharpe_ratio(returns) ==
    IF Len(returns) > 1
    THEN [mean |-> mean(returns),
          variance |-> RSub(mean([i \in 1..Len(returns) |-> RMul(returns[i], returns[i])]),
                            RMul(mean(returns), mean(returns)))]
    ELSE [mean |-> I(0), variance |-> I(0)]

total_exposure(book) == RSum([i \in 1..Len(book) |-> book[i].size])

\* _calculate_portfolio_correlation: with two or more positions line 295
\* calls defaultdict, a name the module never imports or defines, and the
\* lookup raises NameError before anything is counted.
_calculate_portfolio_correlation(book) ==
    IF Len(book) < 2 THEN Return(I(0)) ELSE Raise("NameError")

get_risk_metrics(book, returns, timestamp) ==
    LET correlation_risk == _calculate_portfolio_correlation(book)
    IN  IF correlation_risk.exc # "none" THEN [exc |-> correlation_risk.exc]
        ELSE [exc |-> "none",
              total_exposure |-> total_exposure(book),
              max_drawdown |-> IF returns = <<>> THEN I(0) ELSE RMinOf(drawdown(returns)),
              current_drawdown |-> IF returns = <<>> THEN I(0)
                                   ELSE drawdown(returns)[Len(returns)],
              risk_per_trade |-> risk_per_trade,
              portfolio_var |-> var_95(returns),
              sharpe_ratio |-> sharpe_ratio(returns),
              correlation_risk |-> correlation_risk.val,
              timestamp |-> timestamp]

(***************************************************************************)
(* ConsensusEngine (src/src/analysis/consensus_engine.py).                 *)
(***************************************************************************)
min_confidence_threshold == Q(7, 10)

\* The fields of an AIAnalysis that the engine computes with.
AIAnalysis(symbol, recommendation, confidence, target_price, stop_loss) ==
    [symbol |-> symbol, recommendation |-> recommendation,
     confidence |-> confidence, target_price |-> target_price,
     stop_loss |-> stop_loss]

TechnicalSignal(signal_type, strength) ==
    [signal_type |-> signal_type, strength |-> strength]

SentimentData(sentiment_score, volume) ==
    [sentiment_score |-> sentiment_score, volume |-> volume]

\* rec_map.get(recommendation, 0)
rec_map(recommendation) ==
    CASE recommendation = "STRONG_BUY" -> 2
      [] recommendation = "BUY" -> 1
      [] recommendation = "NEUTRAL" -> 0
      [] recommendation = "SELL" -> -1
      [] recommendation = "STRONG_SELL" -> -2
      [] OTHER -> 0

\* Mutant: the similarity of two prices without the floor at 0.
price_agreement_unfloored(gpt4_price, claude_price) ==
    IF RGt(gpt4_price, I(0)) /\ RGt(claude_price, I(0))
    THEN RMul(RSub(I(1), RDiv(RDiv(RAbs(RSub(gpt4_price, claude_price)), gpt4_price),
                              Q(5, 100))),
              Q(2, 10))
    ELSE I(0)

\* Lines 115-129: the component that two prices (targets, or stop-losses)
\* add to the agreement score.
price_agreement(gpt4_price, claude_price) ==
    IF RGt(gpt4_price, I(0)) /\ RGt(claude_price, I(0))
    THEN LET price_diff == RDiv(RAbs(RSub(gpt4_price, claude_price)), gpt4_price)
         IN  RMul(RMax(I(0), RSub(I(1), RDiv(price_diff, Q(5, 100)))), Q(2, 10))
    ELSE I(0)

_calculate_agreement_score(gpt4, claude) ==
    LET gpt4_score == rec_map(gpt4.recommendation)
        claude_score == rec_map(claude.recommendation)
        rec_agreement == RSub(I(1), Q(Abs(gpt4_score - claude_score), 4))
        conf_diff == RAbs(RSub(gpt4.confidence, claude.confidence))
        conf_agreement == RSub(I(1), conf_diff)
    IN  RSum(<<RMul(rec_agreement, Q(4, 10)),
               RMul(conf_agreement, Q(2, 10)),
               price_agreement(gpt4.target_price, claude.target_price),
               price_agreement(gpt4.stop_loss, claude.stop_loss)>>)

\* sum(1 for s in signals if s.signal_type == signal_type)
signal_count(signals, signal_type) ==
    Cardinality({i \in 1..Len(signals) : signals[i].signal_type = signal_type})

\* Mutant: the larger count is used when the counts are equal, too.
_validate_technical_signals_majority(signals) ==
    IF signals = <<>> THEN Q(1, 2)
    ELSE LET buy_count == signal_count(signals, "BUY")
             sell_count == signal_count(signals, "SELL")
             total_signals == Len(signals)
             validation_score ==
                 IF buy_count > sell_count THEN Q(buy_count, total_signals)
                 ELSE Q(sell_count, total_signals)
             avg_strength ==
                 RDiv(RSum([i \in 1..Len(signals) |-> signals[i].strength]),
                      I(total_signals))
         IN  RMul(validation_score, avg_strength)

_validate_technical_signals(signals) ==
    IF signals = <<>> THEN Q(1, 2)
    ELSE LET buy_count == signal_count(signals, "BUY")
             sell_count == signal_count(signals, "SELL")
             total_signals == Len(signals)
             validation_score ==
                 IF buy_count > sell_count THEN Q(buy_count, total_signals)
                 ELSE IF sell_count > buy_count THEN Q(sell_count, total_signals)
                 ELSE Q(1, 2)
             avg_strength ==
                 RDiv(RSum([i \in 1..Len(signals) |-> signals[i].strength]),
                      I(total_signals))
         IN  RMul(validation_score, avg_strength)

\* sentiment_data is a dict from source names to SentimentData.
_validate_sentiment(sentiment_data) ==
    IF DOMAIN sentiment_data = {} THEN Q(1, 2)
    ELSE IF "aggregate" \notin DOMAIN sentiment_data THEN Q(1, 2)
    ELSE LET aggregate == sentiment_data["aggregate"]
             sentiment_strength == RAbs(aggregate.sentiment_score)
             volume_factor == RMin(Q(aggregate.volume, 100), I(1))
         IN  RAdd(RMul(sentiment_strength, Q(7, 10)), RMul(volume_factor, Q(3, 10)))

_calculate_overall_confidence(gpt4, claude, agreement_score, technical_validation, sentiment_validation) ==
    RSum(<<RMul(gpt4.confidence, Q(25, 100)),
           RMul(claude.confidence, Q(25, 100)),
           RMul(agreement_score, Q(25, 100)),
           RMul(technical_validation, Q(15, 100)),
           RMul(sentiment_validation, Q(10, 100))>>)

\* Mutant: the weights of the opinions and of the signals exchanged.
combined_action_signals_first(gpt4, claude, technical_signals) ==
    LET gpt4_score == rec_map(gpt4.recommendation)
        claude_score == rec_map(claude.recommendation)
        avg_ai_score == Q(gpt4_score + claude_score, 2)
        tech_buy == signal_count(technical_signals, "BUY")
        tech_sell == signal_count(technical_signals, "SELL")
        longest == IF Len(technical_signals) > 1 THEN Len(technical_signals) ELSE 1
        tech_score == Q(tech_buy - tech_sell, longest)
        combined_score == RAdd(RMul(avg_ai_score, Q(3, 10)), RMul(tech_score, Q(7, 10)))
    IN  IF RGe(combined_score, Q(1, 2)) THEN "LONG"
        ELSE IF RLe(combined_score, Q(-1, 2)) THEN "SHORT"
        ELSE "NO_TRADE"

\* Lines 205-227: the direction the opinions and the signals point to.
combined_action(gpt4, claude, technical_signals) ==
    LET gpt4_score == rec_map(gpt4.recommendation)
        claude_score == rec_map(claude.recommendation)
        avg_ai_score == Q(gpt4_score + claude_score, 2)
        tech_buy == signal_count(technical_signals, "BUY")
        tech_sell == signal_count(technical_signals, "SELL")
        longest == IF Len(technical_signals) > 1 THEN Len(technical_signals) ELSE 1
        tech_score == Q(tech_buy - tech_sell, longest)
        combined_score == RAdd(RMul(avg_ai_score, Q(7, 10)), RMul(tech_score, Q(3, 10)))
    IN  IF RGe(combined_score, Q(1, 2)) THEN "LONG"
        ELSE IF RLe(combined_score, Q(-1, 2)) THEN "SHORT"
        ELSE "NO_TRADE"

\* Mutant: the confidence is not compared with the threshold.
_determine_trade_action_unchecked(gpt4, claude, technical_signals, confidence) ==
    combined_action(gpt4, claude, technical_signals)

_determine_trade_action(gpt4, claude, technical_signals, confidence) ==
    IF RLt(confidence, min_confidence_threshold) THEN "NO_TRADE"
    ELSE combined_action(gpt4, claude, technical_signals)

\* Mutant: the first opinion's level is taken instead of the average.
averaged_level_first_only(gpt4_level, claude_level) == gpt4_level

\* Lines 238-239: the two opinions' levels averaged.
averaged_level(gpt4_level, claude_level) == RDiv(RAdd(gpt4_level, claude_level), I(2))

\* Lines 242-250, the target: an averaged target on the wrong side of the
\* current price gives way to 2 x (LONG) or 0.5 x (SHORT) the current price.
logical_target(action, target_price, current_price) ==
    IF action = "LONG"
    THEN IF RLe(target_price, current_price)
         THEN RMul(current_price, I(2)) ELSE target_price
    ELSE IF RGe(target_price, current_price)
         THEN RMul(current_price, Q(1, 2)) ELSE target_price

\* Mutant: the averaged stop-loss is kept whatever side it lies on.
logical_stop_unchecked(action, stop_loss, current_price) == stop_loss

\* Lines 242-250, the stop-loss: 5% away on the losing side when the
\* averaged one lies on the wrong side of the current price.
logical_stop(action, stop_loss, current_price) ==
    IF action = "LONG"
    THEN IF RGe(stop_loss, current_price)
         THEN RMul(current_price, Q(95, 100)) ELSE stop_loss
    ELSE IF RLe(stop_loss, current_price)
         THEN RMul(current_price, Q(105, 100)) ELSE stop_loss

\* Returns the dict of parameters, or raises on the division by
\* current_price (line 268).
_calculate_trade_parameters(gpt4, claude, current_price, action) ==
    LET target_price ==
            logical_target(action,
                           averaged_level(gpt4.target_price, claude.target_price),
                           current_price)
        stop_loss ==
            logical_stop(action,
                         averaged_level(gpt4.stop_loss, claude.stop_loss),
                         current_price)
        risk == IF action = "LONG" THEN RSub(current_price, stop_loss)
                ELSE RSub(stop_loss, current_price)
        reward == IF action = "LONG" THEN RSub(target_price, current_price)
                  ELSE RSub(current_price, target_price)
        risk_reward_ratio == IF RGt(risk, I(0)) THEN RDiv(reward, risk) ELSE I(0)
        avg_confidence == RDiv(RAdd(gpt4.confidence, claude.confidence), I(2))
        position_size == RMul(Q(1, 10), avg_confidence)
    IN  IF IsZero(current_price) THEN [exc |-> "ZeroDivisionError"]
        ELSE [exc |-> "none",
              target_price |-> target_price,
              stop_loss |-> stop_loss,
              position_size |-> position_size,
              expected_return |-> RMul(RDiv(reward, current_price), I(100)),
              risk_reward_ratio |-> risk_reward_ratio]

_summarize_technical_signals(signals) ==
    IF signals = <<>> THEN "No technical signals available"
    ELSE LET buy_count == signal_count(signals, "BUY")
             sell_count == signal_count(signals, "SELL")
         IN  IF buy_count > sell_count THEN "Bullish"
             ELSE IF sell_count > buy_count THEN "Bearish"
             ELSE "Mixed signals"

\* The parts joined into the reasoning text, without the excerpts of the
\* opinions' own texts.
_generate_consensus_reasoning(gpt4, claude, technical_signals, sentiment_data, agreement_score) ==
    <<IF RGt(agreement_score, Q(8, 10)) THEN "Strong agreement between AI models"
      ELSE IF RGt(agreement_score, Q(6, 10)) THEN "Moderate agreement between AI models"
      ELSE "Limited agreement between AI models",
      _summarize_technical_signals(technical_signals)>>
    \o (IF "aggregate" \in DOMAIN sentiment_data
        THEN LET sentiment == sentiment_data["aggregate"]
             IN  <<IF RGt(sentiment.sentiment_score, Q(3, 10))
                   THEN "Positive market sentiment"
                   ELSE IF RLt(sentiment.sentiment_score, Q(-3, 10))
                   THEN "Negative market sentiment"
                   ELSE "Neutral market sentiment">>
        ELSE <<>>)

_identify_risk_factors(gpt4, claude, market_data, sentiment_data) ==
    (IF Abs(rec_map(gpt4.recommendation) - rec_map(claude.recommendation)) > 1
     THEN <<"Significant disagreement between AI models">> ELSE <<>>)
    \o (IF RLt(gpt4.confidence, Q(6, 10)) \/ RLt(claude.confidence, Q(6, 10))
        THEN <<"Low confidence from one or more AI models">> ELSE <<>>)
    \o (IF RGt(market_data.funding_rate, Q(1, 1000))
        THEN <<"High funding rate may indicate crowded trade">> ELSE <<>>)
    \o (IF RLt(market_data.volume_24h, I(1000000))
        THEN <<"Low trading volume may impact liquidity">> ELSE <<>>)
    \o (IF "aggregate" \in DOMAIN sentiment_data
           /\ RLt(RAbs(sentiment_data["aggregate"].sentiment_score), Q(1, 10))
        THEN <<"Unclear market sentiment">> ELSE <<>>)

\* What generate_consensus gives back: nothing, a recommendation, or an
\* exception.
NoRecommendation == [exc |-> "none", returned |-> "None"]
Recommended(recommendation) ==
    [exc |-> "none", returned |-> "TradeRecommendation", val |-> recommendation]

generate_consensus(gpt4_analysis, claude_analysis, technical_signals, sentiment_data, market_data, current_price, timestamp) ==
    LET agreement_score == _calculate_agreement_score(gpt4_analysis, claude_analysis)
        technical_validation == _validate_technical_signals(technical_signals)
        sentiment_validation == _validate_sentiment(sentiment_data)
        overall_confidence ==
            _calculate_overall_confidence(gpt4_analysis, claude_analysis,
                                          agreement_score, technical_validation,
                                          sentiment_validation)
        trade_action ==
            _determine_trade_action(gpt4_analysis, claude_analysis,
                                    technical_signals, overall_confidence)
        trade_params ==
            _calculate_trade_parameters(gpt4_analysis, claude_analysis,
                                        current_price, trade_action)
    IN  IF trade_action = "NO_TRADE" THEN NoRecommendation
        ELSE IF trade_params.exc # "none" THEN [exc |-> trade_params.exc]
        ELSE Recommended(
               [symbol |-> gpt4_analysis.symbol,
                action |-> trade_action,
                confidence |-> overall_confidence,
                entry_price |-> current_price,
                target_price |-> trade_params.target_price,
                stop_loss |-> trade_params.stop_loss,
                position_size_percent |-> trade_params.position_size,
                expected_return |-> trade_params.expected_return,
                risk_reward_ratio |-> trade_params.risk_reward_ratio,
                consensus_reasoning |->
                    _generate_consensus_reasoning(gpt4_analysis, claude_analysis,
                                                  technical_signals, sentiment_data,
                                                  agreement_score),
                risk_factors |->
                    _identify_risk_factors(gpt4_analysis, claude_analysis,
                                           market_data, sentiment_data),
                timestamp |-> timestamp])

(***************************************************************************)
(* The state of a RiskManager and of its caller.                           *)
(***************************************************************************)
VARIABLES
    positions,           \* RiskManager.positions: the open book, a list
    historical_returns,  \* RiskManager.historical_returns, a list
    now,                 \* the clock datetime.now() reads
    steps,               \* the number of RiskManager calls made so far
    call,                \* the last call made: its name and arguments
    result               \* what that call returned or raised

vars == <<positions, historical_returns, now, steps, call, result>>

(***************************************************************************)
(* Inputs of the position lifecycle.                                       *)
(***************************************************************************)
MaxSteps == 8         \* RiskManager calls in a run

Symbols == {BTCUSDT, BTCBUSD, ETHUSDT, SOLUSDT, BNBUSDT}
Sides == {"LONG", "SHORT"}
\* Prices around the levels of a position entered at 100: below a LONG's
\* stop and a SHORT's take-profit (80), a SHORT's profit short of its
\* take-profit (90), a LONG's profit of exactly 5% and a SHORT's stop-loss
\* level (105), between a LONG's take-profit 115 and the stop that has
\* trailed a rally to 120 (116), and beyond a LONG's take-profit (120).
MarketPrices == {I(80), I(90), I(105), I(116), I(120)}

\* A recommendation as the consensus engine builds one at entry price 100:
\* levels at the given percentages of the entry price on the side's profit
\* (target) and loss (stop) side.
Recommendation(symbol, action, confidence, entry, target_pct, stop_pct, fraction, ratio) ==
    LET sign == IF action = "LONG" THEN 1 ELSE -1
        target == RMul(entry, Q(100 + sign * target_pct, 100))
        stop == RMul(entry, Q(100 - sign * stop_pct, 100))
    IN  [symbol |-> symbol,
         action |-> action,
         confidence |-> confidence,
         entry_price |-> entry,
         target_price |-> target,
         stop_loss |-> stop,
         position_size_percent |-> fraction,
         expected_return |-> I(target_pct),
         risk_reward_ratio |-> ratio]

\* One analysis cycle yields at most one recommendation per symbol
\* (main.py, analyze_symbol); the market scenario of the lifecycle runs:
SideOf(symbol) == IF symbol \in {BTCUSDT, SOLUSDT} THEN "LONG" ELSE "SHORT"

LifecycleRecommendations ==
    {Recommendation(sym, SideOf(sym), Q(9, 10), I(100), 15, 5, Q(9, 100), I(2)) :
        sym \in Symbols}

LifecycleBalance == I(10000)

\* The price_updates dicts: the empty one and those with one entry.  The
\* loop of update_positions treats each position on its own, so a dict of
\* several entries acts as the one-entry dicts of its entries in turn.
PriceUpdates ==
    {<<>>} \cup {sym :> price : sym \in Symbols, price \in MarketPrices}

NoCall == [op |-> "none"]
NoResult == [exc |-> "none"]

Init ==
    /\ positions = <<>>
    /\ historical_returns = <<>>
    /\ now = 0
    /\ steps = 0
    /\ call = NoCall
    /\ result = NoResult

(***************************************************************************)
(* One action per RiskManager operation.                                   *)
(***************************************************************************)
\* A run makes at most MaxSteps calls.
Called ==
    /\ steps < MaxSteps
    /\ steps' = steps + 1

ValidateTrade(recommendation, current_price, account_balance) ==
    /\ Called
    /\ call' = [op |-> "validate_trade", recommendation |-> recommendation,
                current_price |-> current_price, account_balance |-> account_balance]
    /\ result' = validate_trade(positions, recommendation, current_price,
                                account_balance)
    /\ UNCHANGED <<positions, historical_returns, now>>

\* The caller adds a position only for the recommendation and size that the
\* immediately preceding validate_trade accepted.
AddPosition ==
    /\ Called
    /\ call.op = "validate_trade"
    /\ result.exc = "none"
    /\ result.ok
    /\ positions' = add_position(positions, call.recommendation, result.size, now)
    /\ now' = now + 1
    /\ call' = NoCall
    /\ result' = NoResult
    /\ UNCHANGED historical_returns

UpdatePositions(price_updates) ==
    /\ Called
    /\ positions' = update_positions(positions, price_updates)
    /\ call' = NoCall
    /\ result' = IF first_raising(positions, price_updates) = 0
                 THEN NoResult ELSE [exc |-> "ZeroDivisionError"]
    /\ UNCHANGED <<historical_returns, now>>

CheckStopLossTakeProfit ==
    /\ Called
    /\ call' = [op |-> "check_stop_loss_take_profit"]
    /\ result' = Return(check_stop_loss_take_profit(positions))
    /\ UNCHANGED <<positions, historical_returns, now>>

ApplyTrailingStop ==
    /\ Called
    /\ positions' = apply_trailing_stop(positions)
    /\ call' = NoCall
    /\ result' = NoResult
    /\ UNCHANGED <<historical_returns, now>>

ClosePosition(position) ==
    /\ Called
    /\ call' = NoCall
    /\ LET closed == close_position(positions, historical_returns, position)
       IN  /\ result' = [exc |-> closed.exc]
           /\ positions' = closed.positions
           /\ historical_returns' = closed.historical_returns
    /\ UNCHANGED now

Next ==
    \/ \E recommendation \in LifecycleRecommendations :
          ValidateTrade(recommendation, recommendation.entry_price, LifecycleBalance)
    \/ AddPosition
    \/ \E price_updates \in PriceUpdates : UpdatePositions(price_updates)
    \/ CheckStopLossTakeProfit
    \/ ApplyTrailingStop
    \/ \E i \in 1..Len(positions) : ClosePosition(positions[i])

Spec == Init /\ [][Next]_vars

(***************************************************************************)
(* validate_trade as a function of the book and its arguments: one call    *)
(* on a book the lifecycle reaches, with arguments from a wider range       *)
(* than the lifecycle's.                                                    *)
(***************************************************************************)
LifecycleRecommendation(symbol) ==
    Recommendation(symbol, SideOf(symbol), Q(9, 10), I(100), 15, 5, Q(9, 100), I(2))

\* validate_trade then add_position, as in a lifecycle run.
Opened(book, symbol) ==
    add_position(book, LifecycleRecommendation(symbol),
                 validate_trade(book, LifecycleRecommendation(symbol), I(100),
                                LifecycleBalance).size,
                 Len(book))

Book1 == Opened(<<>>, BTCUSDT)
Book2 == Opened(Book1, ETHUSDT)
Book3 == Opened(Book2, SOLUSDT)
\* BTCUSDT rallies to 120 and its stop trails; the price then falls to 108.
Book2Trailed == apply_trailing_stop(update_positions(Book2, BTCUSDT :> I(120)))
Book2Retreated == update_positions(Book2Trailed, BTCUSDT :> I(108))

\* The books, with the number of add_position calls and of calls made.
SeedStates ==
    {[positions |-> <<>>, now |-> 0, steps |-> 0],
     [positions |-> Book1, now |-> 1, steps |-> 2],
     [positions |-> Book2, now |-> 2, steps |-> 4],
     [positions |-> Book3, now |-> 3, steps |-> 6],
     [positions |-> Book2Retreated, now |-> 2, steps |-> 7]}

ValidationConfidences == {I(0), Q(35, 100), Q(9, 10)}
ValidationRatios == {I(0), I(2)}
ValidationFractions == {Q(9, 100), Q(1, 2)}
\* The stop's distance from the entry price on the losing side, in percent
\* (negative: on the winning side).
ValidationStopPercents == {-5, 0, 5, 10, 15, 70}
ValidationPrices == {I(100), I(106)}
ValidationBalances == {I(0), I(1000), I(100000)}

ValidationRecommendations ==
    {Recommendation(sym, side, confidence, I(100), 15, stop_pct, fraction, ratio) :
        sym \in Symbols, side \in Sides, confidence \in ValidationConfidences,
        stop_pct \in ValidationStopPercents, fraction \in ValidationFractions,
        ratio \in ValidationRatios}

InitValidate ==
    /\ \E seed \in SeedStates :
          /\ positions = seed.positions
          /\ now = seed.now
          /\ steps = seed.steps
    /\ historical_returns = <<>>
    /\ call = NoCall
    /\ result = NoResult

NextValidate ==
    /\ call = NoCall
    /\ \E recommendation \in ValidationRecommendations,
          current_price \in ValidationPrices,
          account_balance \in ValidationBalances :
          ValidateTrade(recommendation, current_price, account_balance)

SpecValidate == InitValidate /\ [][NextValidate]_vars

(***************************************************************************)
(* One generate_consensus call on the inputs that analyze_symbol gathers.  *)
(***************************************************************************)
MaxSignals == 3       \* technical signals handed to one call

Calls == {"STRONG_BUY", "BUY", "NEUTRAL", "SELL", "STRONG_SELL"}
OpinionConfidences == {I(0), I(1)}
\* <<target_price, stop_loss>> of an opinion; 0 is what an opinion without
\* levels carries.
OpinionLevels == {<<I(0), I(0)>>, <<I(110), I(95)>>, <<I(120), I(80)>>}
Opinions ==
    {AIAnalysis(BTCUSDT, recommendation, confidence, levels[1], levels[2]) :
        recommendation \in Calls, confidence \in OpinionConfidences,
        levels \in OpinionLevels}

\* The engine reads a signal list through its counts and its mean strength
\* only, so one order of each collection of signals is enumerated.
Repeat(signal, n) == [i \in 1..n |-> signal]
SignalLists ==
    {Repeat(TechnicalSignal("BUY", I(1)), counts[1])
        \o Repeat(TechnicalSignal("SELL", Q(1, 2)), counts[2])
        \o Repeat(TechnicalSignal("NEUTRAL", I(0)), counts[3]) :
        counts \in {c \in (0..MaxSignals) \X (0..MaxSignals) \X (0..MaxSignals) :
                       c[1] + c[2] + c[3] <= MaxSignals}}

SentimentMaps ==
    {<<>>,
     "aggregate" :> SentimentData(I(-1), 150),
     "aggregate" :> SentimentData(I(0), 0)}

MarketData == {[funding_rate |-> Q(1, 10000), volume_24h |-> I(5000000)]}
ConsensusPrices == {I(100)}

GenerateConsensus(gpt4_analysis, claude_analysis, technical_signals, sentiment_data, market_data, current_price) ==
    /\ call' = [op |-> "generate_consensus",
                gpt4_analysis |-> gpt4_analysis,
                claude_analysis |-> claude_analysis,
                technical_signals |-> technical_signals,
                sentiment_data |-> sentiment_data,
                market_data |-> market_data,
                current_price |-> current_price]
    /\ result' = generate_consensus(gpt4_analysis, claude_analysis, technical_signals,
                                    sentiment_data, market_data, current_price, now)
    /\ now' = IF result'.exc = "none" /\ result'.returned = "TradeRecommendation"
              THEN now + 1 ELSE now
    /\ UNCHANGED <<positions, historical_returns, steps>>

NextConsensus ==
    /\ call = NoCall
    /\ \E gpt4_analysis \in Opinions, claude_analysis \in Opinions,
          technical_signals \in SignalLists, sentiment_data \in SentimentMaps,
          market_data \in MarketData, current_price \in ConsensusPrices :
          GenerateConsensus(gpt4_analysis, claude_analysis, technical_signals,
                            sentiment_data, market_data, current_price)

SpecConsensus == Init /\ [][NextConsensus]_vars

(***************************************************************************)
(* generate_consensus on one asset's inputs, called once and then again    *)
(* with the same arguments, for opinions that take a clear side.           *)
(***************************************************************************)
MaxConsultations == 2   \* recommendations built in a run

ScenarioCalls == {"STRONG_BUY", "STRONG_SELL"}
ScenarioConfidences == {Q(8, 10), Q(85, 100), Q(9, 10)}
ScenarioLevels == {<<I(0), I(0)>>, <<I(120), I(95)>>, <<I(90), I(110)>>}
ScenarioOpinions ==
    {AIAnalysis(BTCUSDT, recommendation, confidence, levels[1], levels[2]) :
        recommendation \in ScenarioCalls, confidence \in ScenarioConfidences,
        levels \in ScenarioLevels}

\* Three timeframes (settings.technical_timeframes) in agreement.
BullishSignals ==
    <<TechnicalSignal("BUY", Q(8, 10)), TechnicalSignal("BUY", Q(6, 10)),
      TechnicalSignal("BUY", Q(7, 10))>>
ScenarioSignalLists == SignalLists \cup {BullishSignals}

ScenarioSentimentMaps ==
    {"twitter" :> SentimentData(Q(1, 5), 40),
     "aggregate" :> SentimentData(Q(2, 5), 150)}

\* main.py, analyze_symbol: market_data.get('price', 0).
ScenarioPrices == {I(0), I(100)}

\* The same call once more.
GenerateConsensusAgain ==
    /\ call.op = "generate_consensus"
    /\ now < MaxConsultations
    /\ GenerateConsensus(call.gpt4_analysis, call.claude_analysis,
                         call.technical_signals, call.sentiment_data,
                         call.market_data, call.current_price)

NextScenario ==
    \/ /\ call = NoCall
       /\ \E gpt4_analysis \in ScenarioOpinions, claude_analysis \in ScenarioOpinions,
             technical_signals \in ScenarioSignalLists,
             sentiment_data \in ScenarioSentimentMaps,
             market_data \in MarketData, current_price \in ScenarioPrices :
             GenerateConsensus(gpt4_analysis, claude_analysis, technical_signals,
                               sentiment_data, market_data, current_price)
    \/ GenerateConsensusAgain

SpecScenario == Init /\ [][NextScenario]_vars

(***************************************************************************)
(* generate_consensus on two opinions whose price levels lie close to each *)
(* other: 100 against 102 and 95 against 96 are within 5%, 100 against 105 *)
(* is 5% apart, 100 against 110 more; with no technical signals and with   *)
(* signals that all point one way.                                         *)
(***************************************************************************)
AgreementConfidences == {Q(8, 10), I(1)}
AgreementLevels ==
    {<<I(0), I(0)>>, <<I(100), I(95)>>, <<I(102), I(96)>>, <<I(105), I(95)>>,
     <<I(110), I(90)>>}
AgreementOpinions ==
    {AIAnalysis(BTCUSDT, recommendation, confidence, levels[1], levels[2]) :
        recommendation \in Calls, confidence \in AgreementConfidences,
        levels \in AgreementLevels}

BearishSignals ==
    <<TechnicalSignal("SELL", Q(8, 10)), TechnicalSignal("SELL", Q(6, 10)),
      TechnicalSignal("SELL", Q(7, 10))>>
AgreementSignalLists == {<<>>, BullishSignals, BearishSignals}

NextAgreement ==
    /\ call = NoCall
    /\ \E gpt4_analysis \in AgreementOpinions, claude_analysis \in AgreementOpinions,
          technical_signals \in AgreementSignalLists,
          sentiment_data \in ScenarioSentimentMaps,
          market_data \in MarketData, current_price \in ConsensusPrices :
          GenerateConsensus(gpt4_analysis, claude_analysis, technical_signals,
                            sentiment_data, market_data, current_price)

SpecAgreement == Init /\ [][NextAgreement]_vars

(***************************************************************************)
(* Two analysis workers on one RiskManager.  Every RiskManager call runs   *)
(* under the lock, so each call is one atomic step; between a worker's     *)
(* validate_trade and its add_position the lock is free.  call and result  *)
(* hold each worker's last call and what it returned; a validate_trade     *)
(* call also remembers the number of open positions it saw.                *)
(***************************************************************************)
Workers == {"worker_1", "worker_2"}

\* Each worker analyses its own symbols (main.py, one analyze_symbol task
\* per symbol).
WorkerSymbols(w) ==
    IF w = "worker_1" THEN {BTCUSDT, ETHUSDT, BTCBUSD} ELSE {SOLUSDT, BNBUSDT}

InitWorkers ==
    /\ positions = <<>>
    /\ historical_returns = <<>>
    /\ now = 0
    /\ steps = 0
    /\ call = [w \in Workers |-> NoCall]
    /\ result = [w \in Workers |-> NoResult]

WorkerValidateTrade(w, recommendation) ==
    /\ Called
    /\ call' = [call EXCEPT ![w] =
                  [op |-> "validate_trade", recommendation |-> recommendation,
                   current_price |-> recommendation.entry_price,
                   account_balance |-> LifecycleBalance,
                   positions_seen |-> Len(positions)]]
    /\ result' = [result EXCEPT ![w] =
                    validate_trade(positions, recommendation,
                                   recommendation.entry_price, LifecycleBalance)]
    /\ UNCHANGED <<positions, historical_returns, now>>

\* A worker adds the position its own last validate_trade accepted.
WorkerAddPosition(w) ==
    /\ Called
    /\ call[w].op = "validate_trade"
    /\ result[w].exc = "none"
    /\ result[w].ok
    /\ positions' = add_position(positions, call[w].recommendation, result[w].size, now)
    /\ now' = now + 1
    /\ call' = [call EXCEPT ![w] = NoCall]
    /\ result' = [result EXCEPT ![w] = NoResult]
    /\ UNCHANGED historical_returns

NextWorkers ==
    \/ \E w \in Workers : \E symbol \in WorkerSymbols(w) :
          WorkerValidateTrade(w, LifecycleRecommendation(symbol))
    \/ \E w \in Workers : WorkerAddPosition(w)

SpecWorkers == InitWorkers /\ [][NextWorkers]_vars

(***************************************************************************)
(* One get_risk_metrics call (main.py, monitor_positions and               *)
(* generate_report) on a book of the lifecycle and a history of closed     *)
(* positions' returns.  The positions of the book were opened after the    *)
(* closes the history records, so the clock stands that much later.        *)
(***************************************************************************)
MaxHistory == 21      \* closed positions in the history

\* Returns in the order the closes recorded them: the pattern repeated.
ReturnPatterns == {<<I(0)>>, <<Q(1, 5), Q(-1, 6)>>, <<Q(-1, 6), Q(1, 5)>>}

History(pattern, n) == [i \in 1..n |-> pattern[((i - 1) % Len(pattern)) + 1]]

Histories == {History(pattern, n) : pattern \in ReturnPatterns, n \in 0..MaxHistory}

OpenedLater(book, closes) ==
    [i \in 1..Len(book) |-> [book[i] EXCEPT !.entry_time = @ + closes]]

InitMetrics ==
    /\ \E seed \in SeedStates, returns \in Histories :
          /\ positions = OpenedLater(seed.positions, Len(returns))
          /\ historical_returns = returns
          /\ now = seed.now + Len(returns)
    /\ steps = 0
    /\ call = NoCall
    /\ result = NoResult

\* The clock is read for the timestamp only when the call gets that far.
GetRiskMetrics ==
    /\ Called
    /\ call' = [op |-> "get_risk_metrics"]
    /\ result' = get_risk_metrics(positions, historical_returns, now)
    /\ now' = IF result'.exc = "none" THEN now + 1 ELSE now
    /\ UNCHANGED <<positions, historical_returns>>

NextMetrics == call = NoCall /\ GetRiskMetrics

SpecMetrics == InitMetrics /\ [][NextMetrics]_vars

(***************************************************************************)
(* monitor_positions (main.py 141-173), which schedule_jobs starts as a    *)
(* new asyncio task every five minutes whether or not the last one has     *)
(* finished.  A task runs until it awaits: while it fetches the tickers    *)
(* of the open positions, and before each close_position, where it awaits  *)
(* send_position_update.  From update_positions to the first such await,   *)
(* and from the last close_position through apply_trailing_stop and        *)
(* get_risk_metrics, it runs without interruption.  A cycle on an empty    *)
(* book awaits nothing and changes nothing, and is left out.               *)
(*                                                                         *)
(* call and result hold each task's locals and the exception that ended    *)
(* it.  positions_to_close holds Position objects: a task closes the       *)
(* object it was given, with the field values the object has by then.      *)
(* alone records that no other task has run since the task's cycle began.  *)
(***************************************************************************)
MaxCycles == 2        \* monitor_positions tasks started in a run

Tasks == {"task_1", "task_2"}
MonitorPrices == {I(90), I(110), I(120)}

MonitorBooks == {Book1, Book2, Book2Retreated}

IdleTask ==
    [op |-> "none", at |-> "idle", price_updates |-> <<>>,
     positions_to_close |-> <<>>, alone |-> TRUE]

\* The tickers fetched: get_24hr_ticker returns {} when the fetch fails, and
\* the symbol is then left out of price_updates.
TickerMaps(book) ==
    LET open == {book[i].symbol : i \in 1..Len(book)}
    IN  UNION {[fetched -> MonitorPrices] : fetched \in SUBSET open}

InFlight(t) == call[t].at \in {"fetched", "closing"}

\* The other tasks have been interleaved with.
Interleaved(t, locals) ==
    [u \in Tasks |->
       IF u = t THEN locals
       ELSE IF InFlight(u) THEN [call[u] EXCEPT !.alone = FALSE]
       ELSE call[u]]

\* The object a task holds: the position of the book it is, or, once it has
\* left the book, a position no longer equal to any in the book.
object(book, position) ==
    LET same == {i \in 1..Len(book) : book[i].entry_time = position.entry_time}
    IN  IF same = {} THEN position ELSE book[CHOOSE i \in same : TRUE]

InitMonitor ==
    /\ \E book \in MonitorBooks :
          /\ positions = book
          /\ now = Len(book)
    /\ historical_returns = <<>>
    /\ steps = 0
    /\ call = [t \in Tasks |-> IdleTask]
    /\ result = [t \in Tasks |-> NoResult]

\* Lines 145-150.
FetchTickers(t, price_updates) ==
    /\ ~InFlight(t)
    /\ steps < MaxCycles
    /\ steps' = steps + 1
    /\ positions # <<>>
    /\ call' = Interleaved(t, [op |-> "monitor_positions", at |-> "fetched",
                               price_updates |-> price_updates,
                               positions_to_close |-> <<>>, alone |-> TRUE])
    /\ result' = [result EXCEPT ![t] = NoResult]
    /\ UNCHANGED <<positions, historical_returns, now>>

\* Lines 162-166, which follow the last close_position without an await.
FinishCycle(t, book, returns) ==
    LET risk_metrics == get_risk_metrics(apply_trailing_stop(book), returns, now)
    IN  /\ positions' = apply_trailing_stop(book)
        /\ historical_returns' = returns
        /\ now' = IF risk_metrics.exc = "none" THEN now + 1 ELSE now
        /\ call' = Interleaved(t, [call[t] EXCEPT !.at = "finished",
                                                  !.positions_to_close = <<>>])
        /\ result' = [result EXCEPT ![t] = [exc |-> risk_metrics.exc]]

\* A task ended by an exception.
FailCycle(t, exc, book, returns) ==
    /\ positions' = book
    /\ historical_returns' = returns
    /\ call' = Interleaved(t, [call[t] EXCEPT !.at = "failed"])
    /\ result' = [result EXCEPT ![t] = [exc |-> exc]]
    /\ UNCHANGED now

\* Lines 153-158, up to the first await of send_position_update.
UpdateAndCheck(t) ==
    /\ call[t].at = "fetched"
    /\ LET updated == update_positions(positions, call[t].price_updates)
           exits == check_stop_loss_take_profit(updated)
       IN  IF first_raising(positions, call[t].price_updates) # 0
           THEN FailCycle(t, "ZeroDivisionError", updated, historical_returns)
           ELSE IF exits = <<>>
           THEN FinishCycle(t, updated, historical_returns)
           ELSE /\ positions' = updated
                /\ call' = Interleaved(t, [call[t] EXCEPT !.at = "closing",
                                                          !.positions_to_close = exits])
                /\ UNCHANGED <<historical_returns, now, result>>
    /\ UNCHANGED steps

\* Lines 158-160: send_position_update has returned, the position is closed,
\* and the loop goes on to the next await or leaves.
CloseReported(t) ==
    /\ call[t].at = "closing"
    /\ LET position == object(positions, Head(call[t].positions_to_close)[1])
           closed == close_position(positions, historical_returns, position)
           rest == Tail(call[t].positions_to_close)
       IN  IF closed.exc # "none"
           THEN FailCycle(t, closed.exc, closed.positions, closed.historical_returns)
           ELSE IF rest = <<>>
           THEN FinishCycle(t, closed.positions, closed.historical_returns)
           ELSE /\ positions' = closed.positions
                /\ historical_returns' = closed.historical_returns
                /\ call' = Interleaved(t, [call[t] EXCEPT !.positions_to_close = rest])
                /\ UNCHANGED <<now, result>>
    /\ UNCHANGED steps

NextMonitor ==
    \/ \E t \in Tasks : \E price_updates \in TickerMaps(positions) :
          FetchTickers(t, price_updates)
    \/ \E t \in Tasks : UpdateAndCheck(t)
    \/ \E t \in Tasks : CloseReported(t)

SpecMonitor == InitMonitor /\ [][NextMonitor]_vars

(***************************************************************************)
(* Properties.                                                             *)
(***************************************************************************)
Validated == call.op = "validate_trade"
Returned == Validated /\ result.exc = "none"

\* The absolute stop distance of the validated recommendation, as a
\* fraction of the current price.
StopDistance ==
    RDiv(RAbs(RSub(call.current_price, call.recommendation.stop_loss)),
         call.current_price)

\* The stop lies the given percentage of the entry price away from the
\* entry price, on the losing side.
StopAtPercentOfEntry(recommendation, pct) ==
    recommendation.stop_loss =
        RMul(recommendation.entry_price,
             Q(100 - (IF recommendation.action = "LONG" THEN 1 ELSE -1) * pct, 100))

(* C1: in a sequential run in which add_position follows an accepting
   validate_trade, the open book never holds more than
   max_concurrent_positions positions. *)
C1_PositionLimit == Len(positions) <= max_concurrent_positions

\* The book is full and a further validate_trade has been refused.
C1_Witness ==
    /\ Len(positions) = max_concurrent_positions
    /\ Validated
    /\ ~result.ok

(* C2: under every operation, and so under every sequence of
   update_positions and apply_trailing_stop, the stop_loss of a position
   that stays open never loosens: it does not fall for a LONG and does not
   rise for a SHORT. *)
C2_StopNeverLoosens ==
    [][\A i \in 1..Len(positions), j \in 1..Len(positions') :
          positions[i].entry_time = positions'[j].entry_time =>
             IF positions[i].side = "LONG"
             THEN RGe(positions'[j].stop_loss, positions[i].stop_loss)
             ELSE RLe(positions'[j].stop_loss, positions[i].stop_loss)]_vars

\* A LONG whose stop has trailed up, whose price has since retreated, and
\* which is still more than 5% in profit: the candidate stop is below the
\* stop in place.
C2_Witness ==
    \E i \in 1..Len(positions) :
        /\ positions[i].side = "LONG"
        /\ RGt(positions[i].stop_loss, positions[i].entry_price)
        /\ RGt(positions[i].pnl_percentage, trailing_profit_threshold)
        /\ RLt(RMul(positions[i].current_price, RSub(I(1), trailing_stop_percentage)),
               positions[i].stop_loss)

(* C3: with max_concurrent_positions or more positions in the book,
   validate_trade returns (False, "Maximum concurrent positions reached", 0)
   whatever the recommendation, the current price and the balance. *)
C3_RejectsAtLimit ==
    (Validated /\ Len(positions) >= max_concurrent_positions) =>
        result = Rejected("Maximum concurrent positions reached", 0)

\* At the limit, a recommendation with zero stop distance (which sizing
\* cannot divide by) is refused for the position count.
C3_Witness ==
    /\ Validated
    /\ Len(positions) >= max_concurrent_positions
    /\ call.recommendation.stop_loss = call.current_price
    /\ result.reason = "Maximum concurrent positions reached"

(* The five checks of validate_trade, each on its own, for a call whose
   sizing returned. *)
SizedAmount ==
    capped_size(_calculate_position_size(call.recommendation, call.current_price,
                                         call.account_balance).val)

FailsCount == Len(positions) >= max_concurrent_positions
FailsMinimum == RLt(SizedAmount, min_position_size)
FailsPortfolioRisk ==
    RGt(_calculate_portfolio_risk(positions, SizedAmount, call.recommendation).val,
        max_portfolio_risk)
FailsCorrelation ==
    RGt(_check_correlation_risk(positions, call.recommendation.symbol),
        correlation_threshold)
FailsStopDistance ==
    RGt(risk_percentage(call.recommendation, call.current_price), max_stop_loss)

FirstFailing ==
    IF FailsCount THEN "Maximum concurrent positions reached"
    ELSE IF FailsMinimum THEN "Position size too small"
    ELSE IF FailsPortfolioRisk THEN "Portfolio risk too high"
    ELSE IF FailsCorrelation THEN "High correlation with existing positions"
    ELSE IF FailsStopDistance THEN "Stop loss too far"
    ELSE "Trade validated"

(* C4: a validate_trade call that returns gives the reason of the first
   failing check in the order count, minimum size, portfolio risk,
   correlation, stop distance; it accepts exactly when no check fails, and
   every rejection carries the amount 0. *)
C4_FirstFailingCheckWins ==
    Returned =>
        /\ result.reason = FirstFailing
        /\ result.ok <=> (FirstFailing = "Trade validated")
        /\ ~result.ok => result.size = I(0)

\* A recommendation that fails the correlation check and the stop distance
\* check is refused for the correlation.
C4_Witness ==
    /\ Returned
    /\ ~FailsCount /\ ~FailsMinimum /\ ~FailsPortfolioRisk
    /\ FailsCorrelation /\ FailsStopDistance
    /\ result.reason = "High correlation with existing positions"

\* The validated stop lies 15% of the entry price from the entry price.
StopAt15 == Validated /\ StopAtPercentOfEntry(call.recommendation, 15)

(* C5 as claimed: a recommendation whose stop lies 15% from entry on the
   losing side is refused with "Stop loss too far", whatever its confidence
   and whatever the number of open positions. *)
C5_AlwaysStopLossReason ==
    StopAt15 =>
        /\ result.exc = "none"
        /\ ~result.ok
        /\ result.reason = "Stop loss too far"

(* C5 amended: validated at a current price equal to its entry price, such
   a recommendation is never accepted: the call returns a refusal with
   amount 0, and the reason is "Stop loss too far" exactly when none of the
   four earlier checks (count, minimum size, portfolio risk, correlation)
   fails. *)
C5_NeverAcceptedAtEntryPrice ==
    (StopAt15 /\ call.current_price = call.recommendation.entry_price) =>
        /\ result.exc = "none"
        /\ ~result.ok
        /\ result.size = I(0)
        /\ (result.reason = "Stop loss too far") <=>
              ~(FailsCount \/ FailsMinimum \/ FailsPortfolioRisk \/ FailsCorrelation)

\* With positions already open, a 15% stop is refused for its distance.
C5_Witness ==
    /\ StopAt15
    /\ call.current_price = call.recommendation.entry_price
    /\ Len(positions) > 0
    /\ result.reason = "Stop loss too far"

(* C6: validate_trade never raises: every call with action LONG or SHORT,
   a positive current price and a non-negative balance returns a triple. *)
C6_NeverRaises ==
    (/\ Validated
     /\ call.recommendation.action \in {"LONG", "SHORT"}
     /\ RGt(call.current_price, I(0))
     /\ RGe(call.account_balance, I(0))) => result.exc = "none"

(* C7: the amount of an accepted trade is the least of balance x size
   fraction, balance x Kelly fraction, balance x risk_per_trade / (stop
   distance / current price) and max_position_size, and lies between 10
   and max_position_size. *)
C7_AcceptedAmount ==
    (Returned /\ result.ok) =>
        /\ result.size =
             RMin(RMin(RMul(call.account_balance,
                            call.recommendation.position_size_percent),
                       RMul(call.account_balance,
                            kelly_fraction(call.recommendation))),
                  RMin(RDiv(RMul(call.account_balance, risk_per_trade), StopDistance),
                       max_position_size))
        /\ RGe(result.size, min_position_size)
        /\ RLe(result.size, max_position_size)

\* An accepted trade sized by the risk ceiling alone.
C7_Witness ==
    /\ Returned
    /\ result.ok
    /\ result.size = RDiv(RMul(call.account_balance, risk_per_trade), StopDistance)
    /\ RLt(result.size, RMul(call.account_balance,
                             call.recommendation.position_size_percent))
    /\ RLt(result.size, RMul(call.account_balance,
                             kelly_fraction(call.recommendation)))
    /\ RLt(result.size, max_position_size)

\* (p*b - (1 - p)) / b for b # 0.
KellyFormula(p, b) == RDiv(RSub(RMul(p, b), RSub(I(1), p)), b)

Clamp(x, lo, hi) == IF RLt(x, lo) THEN lo ELSE IF RGt(x, hi) THEN hi ELSE x

(* C8: for confidence p in [0,1] and risk/reward b >= 0 the Kelly fraction
   used is (p*b - (1-p))/b clamped into [0, 0.25], and 0 when b = 0; no
   size that sizing computes or validate_trade returns exceeds 0.25 x the
   balance. *)
C8_KellyBounded ==
    Validated =>
        LET p == call.recommendation.confidence
            b == call.recommendation.risk_reward_ratio
            k == kelly_fraction(call.recommendation)
            quarter == RMul(Q(1, 4), call.account_balance)
            sized == _calculate_position_size(call.recommendation, call.current_price,
                                              call.account_balance)
        IN  /\ k = (IF IsZero(b) THEN I(0) ELSE Clamp(KellyFormula(p, b), I(0), Q(1, 4)))
            /\ RGe(k, I(0)) /\ RLe(k, Q(1, 4))
            /\ sized.exc = "none" => RLe(sized.val, quarter)
            /\ result.exc = "none" => RLe(result.size, quarter)

\* The formula gives more than 0.25, and the accepted amount is exactly a
\* quarter of the balance.
C8_Witness ==
    /\ Returned
    /\ result.ok
    /\ ~IsZero(call.recommendation.risk_reward_ratio)
    /\ RGt(KellyFormula(call.recommendation.confidence,
                        call.recommendation.risk_reward_ratio), Q(1, 4))
    /\ result.size = RMul(Q(1, 4), call.account_balance)

Consulted == call.op = "generate_consensus"

\* The four scores of the consulted inputs.
AgreementScore == _calculate_agreement_score(call.gpt4_analysis, call.claude_analysis)
TechnicalValidation == _validate_technical_signals(call.technical_signals)
SentimentValidation == _validate_sentiment(call.sentiment_data)
OverallConfidence ==
    _calculate_overall_confidence(call.gpt4_analysis, call.claude_analysis,
                                  AgreementScore, TechnicalValidation,
                                  SentimentValidation)

(* C9: generate_consensus returns a recommendation only when the overall
   confidence is at least 0.7: a returned recommendation has confidence
   >= 0.7 and action LONG or SHORT, and an overall confidence below 0.7
   yields no recommendation whatever the opinions' calls. *)
C9_ConfidenceGate ==
    Consulted =>
        /\ (result.exc = "none" /\ result.returned = "TradeRecommendation") =>
              /\ RGe(result.val.confidence, Q(7, 10))
              /\ result.val.confidence = OverallConfidence
              /\ result.val.action \in {"LONG", "SHORT"}
        /\ RLt(OverallConfidence, Q(7, 10)) => result = NoRecommendation

\* Two STRONG_BUY opinions backed by BUY signals alone, and still no
\* recommendation, the overall confidence being below 0.7.
C9_Witness ==
    /\ Consulted
    /\ call.gpt4_analysis.recommendation = "STRONG_BUY"
    /\ call.claude_analysis.recommendation = "STRONG_BUY"
    /\ Len(call.technical_signals) = 3
    /\ \A i \in 1..3 : call.technical_signals[i].signal_type = "BUY"
    /\ RLt(OverallConfidence, Q(7, 10))
    /\ result = NoRecommendation

InUnitInterval(x) == RGe(x, I(0)) /\ RLe(x, I(1))

(* C10: for opinion confidences and signal strengths in [0,1], aggregate
   sentiment in [-1,1] with volume >= 0 and any calls, targets and
   stop-losses, the agreement score, the technical validation, the
   sentiment validation and the overall confidence each lie in [0,1]. *)
C10_ScoresInUnitInterval ==
    Consulted =>
        /\ InUnitInterval(AgreementScore)
        /\ InUnitInterval(TechnicalValidation)
        /\ InUnitInterval(SentimentValidation)
        /\ InUnitInterval(OverallConfidence)

\* Maximally divergent opinions: opposite calls, confidences 0 and 1,
\* positive targets and stop-losses more than 5% apart; the agreement
\* score is 0.
C10_Witness ==
    /\ Consulted
    /\ Abs(rec_map(call.gpt4_analysis.recommendation)
           - rec_map(call.claude_analysis.recommendation)) = 4
    /\ RAbs(RSub(call.gpt4_analysis.confidence, call.claude_analysis.confidence)) = I(1)
    /\ RGt(call.gpt4_analysis.target_price, I(0))
    /\ RGt(call.claude_analysis.target_price, I(0))
    /\ call.gpt4_analysis.target_price # call.claude_analysis.target_price
    /\ AgreementScore = I(0)

(* C11: generate_consensus is total: on every well-typed input, a current
   price of 0, opinion prices of 0, an empty signal list and a sentiment
   map without an aggregate entry included, it returns a recommendation or
   None and never raises. *)
C11_Total == Consulted => result.exc = "none"

(* C12: two calls of generate_consensus with identical arguments return
   identical results: None both times, or recommendations equal in every
   field. *)
C12_SameArgumentsSameResult ==
    [][(Consulted /\ call' = call) => result' = result]_vars

RecommendationReturned ==
    Consulted /\ result.exc = "none" /\ result.returned = "TradeRecommendation"

\* Two STRONG_BUY opinions at 0.9 and 0.85, three BUY signals of strengths
\* 0.8, 0.6, 0.7, aggregate sentiment 0.4 on 150 mentions, price 100.
BullishScenario ==
    /\ Consulted
    /\ call.gpt4_analysis.recommendation = "STRONG_BUY"
    /\ call.claude_analysis.recommendation = "STRONG_BUY"
    /\ call.gpt4_analysis.confidence = Q(9, 10)
    /\ call.claude_analysis.confidence = Q(85, 100)
    /\ call.technical_signals = BullishSignals
    /\ call.sentiment_data = ("aggregate" :> SentimentData(Q(2, 5), 150))
    /\ call.current_price = I(100)

\* Half the sum of the two opinions' targets.
MeanTarget ==
    RMul(Q(1, 2), RAdd(call.gpt4_analysis.target_price,
                       call.claude_analysis.target_price))

(* C13: in the bullish scenario generate_consensus returns a recommendation
   whatever targets and stop-losses the opinions carry: its confidence is
   >= 0.7, its action LONG, and its target the average of the two opinion
   targets whenever that average exceeds the entry price. *)
C13_BullishScenario ==
    BullishScenario =>
        /\ RecommendationReturned
        /\ RGe(result.val.confidence, Q(7, 10))
        /\ result.val.action = "LONG"
        /\ result.val.entry_price = I(100)
        /\ RGt(MeanTarget, I(100)) => result.val.target_price = MeanTarget

\* The opinions' targets differ, their average is above the entry price
\* and is the target recommended.
C13_Witness ==
    /\ BullishScenario
    /\ call.gpt4_analysis.target_price # call.claude_analysis.target_price
    /\ RGt(MeanTarget, I(100))
    /\ RecommendationReturned
    /\ result.val.target_price = MeanTarget

\* One opinion STRONG_BUY, the other STRONG_SELL, both at confidence 0.8.
OpposedScenario ==
    /\ Consulted
    /\ {call.gpt4_analysis.recommendation, call.claude_analysis.recommendation}
          = {"STRONG_BUY", "STRONG_SELL"}
    /\ call.gpt4_analysis.confidence = Q(8, 10)
    /\ call.claude_analysis.confidence = Q(8, 10)

(* C14: with one opinion STRONG_BUY and the other STRONG_SELL, both at
   confidence 0.8, generate_consensus returns no recommendation, whatever
   the signals, the sentiment, the targets, the stop-losses and the current
   price. *)
C14_OpposedOpinionsAbstain == OpposedScenario => result = NoRecommendation

\* Opposed opinions whose overall confidence still reaches the threshold,
\* with every signal a BUY: nothing is recommended.
C14_Witness ==
    /\ OpposedScenario
    /\ RGe(OverallConfidence, Q(7, 10))
    /\ Len(call.technical_signals) > 0
    /\ \A i \in 1..Len(call.technical_signals) :
          call.technical_signals[i].signal_type = "BUY"
    /\ result = NoRecommendation

(* C17: every recommendation returned for a positive current price has
   ordered levels: stop_loss < entry_price < target_price for LONG,
   target_price < entry_price < stop_loss for SHORT; its reward (expected
   return) and its risk/reward ratio are strictly positive, whatever
   levels the two opinions proposed. *)
C17_OrderedLevels ==
    (RecommendationReturned /\ RGt(call.current_price, I(0))) =>
        LET rec == result.val
            risk == RAbs(RSub(rec.entry_price, rec.stop_loss))
            reward == RAbs(RSub(rec.target_price, rec.entry_price))
        IN  /\ rec.entry_price = call.current_price
            /\ IF rec.action = "LONG"
               THEN RLt(rec.stop_loss, rec.entry_price)
                    /\ RLt(rec.entry_price, rec.target_price)
               ELSE RLt(rec.target_price, rec.entry_price)
                    /\ RLt(rec.entry_price, rec.stop_loss)
            /\ RGt(rec.expected_return, I(0))
            /\ RGt(rec.risk_reward_ratio, I(0))
            /\ rec.risk_reward_ratio = RDiv(reward, risk)

\* A SHORT whose averaged stop-loss lay below the current price and whose
\* averaged target lay above it: both were replaced.
C17_Witness ==
    /\ RecommendationReturned
    /\ result.val.action = "SHORT"
    /\ RGt(call.current_price, I(0))
    /\ RLt(RAdd(call.gpt4_analysis.stop_loss, call.claude_analysis.stop_loss),
           RMul(I(2), call.current_price))
    /\ RGt(MeanTarget, call.current_price)
    /\ result.val.stop_loss = RMul(call.current_price, Q(105, 100))
    /\ result.val.target_price = RMul(call.current_price, Q(1, 2))

\* The book without its k-th position.
Without(book, k) ==
    [i \in 1..(Len(book) - 1) |-> IF i < k THEN book[i] ELSE book[i + 1]]

(* C15: a step that closes a position removes exactly that position from
   the book and appends exactly its return percentage to the historical
   returns, leaving the other positions and the earlier entries as they
   were; no step shortens or rewrites the history, the history grows only
   by a close, and a position that has left the book never comes back:
   every position entering the book is stamped with the current clock
   reading, later than every position opened before. *)
C15_CloseRecordsReturn ==
    [][/\ Len(historical_returns') >= Len(historical_returns)
       /\ SubSeq(historical_returns', 1, Len(historical_returns)) = historical_returns
       /\ now' >= now
       /\ Len(positions') < Len(positions) =>
             \E k \in 1..Len(positions) :
                /\ positions' = Without(positions, k)
                /\ historical_returns' =
                      Append(historical_returns, positions[k].pnl_percentage)
       /\ Len(historical_returns') > Len(historical_returns) =>
             Len(positions') = Len(positions) - 1
       /\ \A j \in 1..Len(positions') :
             \/ \E i \in 1..Len(positions) :
                   positions[i].entry_time = positions'[j].entry_time
             \/ /\ positions'[j].entry_time = now
                /\ now' > now
                /\ \A i \in 1..Len(positions) : positions[i].entry_time < now
      ]_vars

\* The first position opened has been closed with a return other than 0,
\* and a position opened after it is still in the book.
C15_Witness ==
    /\ Len(historical_returns) = 1
    /\ historical_returns[1] # I(0)
    /\ Len(positions) >= 1
    /\ \A i \in 1..Len(positions) : positions[i].entry_time > 0

(* C16 as claimed: with two workers whose every RiskManager call is
   atomic under the lock, the open book never holds more than
   max_concurrent_positions positions, in any interleaving. *)
C16_LockPerCall == Len(positions) =< max_concurrent_positions

\* Worker w adds a position in this step.
Adds(w) ==
    /\ call[w].op = "validate_trade"
    /\ call'[w] = NoCall
    /\ Len(positions') = Len(positions) + 1

(* C16 amended: an add_position whose validate_trade saw the book as it
   still is (no other worker's add_position came in between, which is what
   holding the lock from validate_trade through add_position ensures)
   never takes the book over max_concurrent_positions. *)
C16_LockAcrossValidateAndAdd ==
    [][\A w \in Workers :
          (Adds(w) /\ call[w].positions_seen = Len(positions)) =>
              Len(positions') =< max_concurrent_positions]_vars

\* One place is left and both workers hold an acceptance obtained from the
\* book as it is now: whichever adds first adds under the condition above,
\* the other then adds on a stale count.
C16_Witness ==
    /\ Len(positions) = max_concurrent_positions - 1
    /\ \A w \in Workers :
          /\ call[w].op = "validate_trade"
          /\ result[w].exc = "none"
          /\ result[w].ok
          /\ call[w].positions_seen = Len(positions)

\* The price has reached the position's stop-loss level.
StopHit(position) ==
    IF position.side = "LONG"
    THEN RLe(position.current_price, position.stop_loss)
    ELSE RGe(position.current_price, position.stop_loss)

\* The price has reached the position's take-profit level.
TargetHit(position) ==
    IF position.side = "LONG"
    THEN RGe(position.current_price, position.take_profit)
    ELSE RLe(position.current_price, position.take_profit)

Checked == call.op = "check_stop_loss_take_profit"

\* What a check of the book returned is right: one entry for each position
\* whose price has reached a level, none for the others, and the reason is
\* STOP_LOSS whenever the stop level is reached.
ExitsReported(book, exits) ==
    LET exiting == {i \in 1..Len(book) : StopHit(book[i]) \/ TargetHit(book[i])}
    IN  /\ Len(exits) = Cardinality(exiting)
        /\ \A k \in 1..Len(exits) :
              \E i \in exiting : exits[k][1] = book[i]
        /\ \A i \in exiting :
              /\ Cardinality({k \in 1..Len(exits) : exits[k][1] = book[i]}) = 1
              /\ \A k \in 1..Len(exits) :
                    exits[k][1] = book[i] =>
                       exits[k][2] = IF StopHit(book[i]) THEN "STOP_LOSS"
                                     ELSE "TAKE_PROFIT"

(* C18: check_stop_loss_take_profit returns exactly one entry for each open
   position whose current price has reached its stop-loss or take-profit
   level and none for any other position; for a LONG the reason is
   STOP_LOSS when current <= stop and otherwise TAKE_PROFIT when current >=
   take-profit, for a SHORT STOP_LOSS when current >= stop and otherwise
   TAKE_PROFIT when current <= take-profit, so STOP_LOSS is reported when
   both levels are reached; the call changes neither the book nor the
   historical returns. *)
C18_ExitsReported ==
    /\ [](Checked => ExitsReported(positions, result.val))
    /\ [][(call'.op = "check_stop_loss_take_profit" /\ steps' = steps + 1) =>
             (positions' = positions /\ historical_returns' = historical_returns)]_vars

\* A check has just reported on a book with a position whose price has reached
\* both of its levels, next to a position that has reached neither.
C18_Witness ==
    /\ Checked
    /\ \E i \in 1..Len(positions) : StopHit(positions[i]) /\ TargetHit(positions[i])
    /\ \E i \in 1..Len(positions) : ~StopHit(positions[i]) /\ ~TargetHit(positions[i])
    /\ Len(result.val) = 1

\* The fields fixed when the position was added.
SameTerms(before, after) ==
    /\ after.symbol = before.symbol
    /\ after.side = before.side
    /\ after.entry_price = before.entry_price
    /\ after.size = before.size
    /\ after.take_profit = before.take_profit
    /\ after.entry_time = before.entry_time

SameMarks(before, after) ==
    /\ after.current_price = before.current_price
    /\ after.pnl = before.pnl
    /\ after.pnl_percentage = before.pnl_percentage

\* update_positions with this price map touches nothing but the current
\* price and the PnL fields, and only of positions whose symbol the map holds.
UpdateTouchesMarksOnly(book, price_updates) ==
    LET after == update_positions(book, price_updates)
    IN  /\ Len(after) = Len(book)
        /\ \A i \in 1..Len(book) :
              /\ SameTerms(book[i], after[i])
              /\ after[i].stop_loss = book[i].stop_loss
              /\ book[i].symbol \notin DOMAIN price_updates => after[i] = book[i]

\* apply_trailing_stop touches nothing but the stop-loss, and only of
\* positions whose profit is strictly above the 5% threshold.
TrailTouchesStopOnly(book) ==
    LET after == apply_trailing_stop(book)
    IN  /\ Len(after) = Len(book)
        /\ \A i \in 1..Len(book) :
              /\ SameTerms(book[i], after[i])
              /\ SameMarks(book[i], after[i])
              /\ after[i].stop_loss # book[i].stop_loss =>
                    RGt(book[i].pnl_percentage, Q(5, 100))

(* C19: once a position is in the book its symbol, side, entry price, size
   and take-profit never change; update_positions changes only the current
   price and the PnL fields, and only of positions whose symbol is in the
   price map; the stop-loss changes only in an apply_trailing_stop call (a
   step that changes some stop-loss changes no price or PnL field and
   neither book length nor history) and only for a position whose profit
   percentage before the call is strictly above 5%. *)
C19_FixedTerms ==
    /\ [](/\ \A price_updates \in PriceUpdates :
                UpdateTouchesMarksOnly(positions, price_updates)
          /\ TrailTouchesStopOnly(positions))
    /\ [][\A i \in 1..Len(positions), j \in 1..Len(positions') :
             positions'[j].entry_time = positions[i].entry_time =>
                /\ SameTerms(positions[i], positions'[j])
                /\ positions'[j].stop_loss # positions[i].stop_loss =>
                      /\ RGt(positions[i].pnl_percentage, Q(5, 100))
                      /\ Len(positions') = Len(positions)
                      /\ historical_returns' = historical_returns
                      /\ \A k \in 1..Len(positions) :
                            /\ SameTerms(positions[k], positions'[k])
                            /\ SameMarks(positions[k], positions'[k])]_vars

\* A LONG position whose stop has trailed above its first level stands next
\* to a position whose profit is exactly 5% and whose stop is where it was
\* set when the position was added.
C19_Witness ==
    \E i, j \in 1..Len(positions) :
        /\ positions[i].side = "LONG"
        /\ RGt(positions[i].stop_loss, I(95))
        /\ positions[j].pnl_percentage = Q(5, 100)
        /\ positions[j].stop_loss = I(95)

\* The portfolio risk of the book with the trade added, each exposure
\* weighted by its share of the total portfolio value V.
PortfolioRiskAgainst(V) ==
    RAdd(RSum([i \in 1..Len(positions) |->
                 RDiv(RMul(position_risk(positions[i]), positions[i].size), V)]),
         RDiv(RMul(new_risk(call.recommendation), SizedAmount), V))

(* C20: a validate_trade call that has passed the count and minimum-size
   checks is rejected for portfolio risk exactly when the sum over the open
   positions of stop distance fraction * size / V, plus the new trade's stop
   distance fraction * sized amount / V, exceeds max_portfolio_risk (0.06),
   where V is the account balance passed to the call. *)
C20_WeightedByAccountBalance ==
    (Returned /\ ~FailsCount /\ ~FailsMinimum) =>
        ((result.reason = "Portfolio risk too high") <=>
            RGt(PortfolioRiskAgainst(call.account_balance), max_portfolio_risk))

Measured == call.op = "get_risk_metrics"

\* The largest number of open positions sharing one three-character prefix.
MaxSamePrefix(book) ==
    LET count(i) == Cardinality({j \in 1..Len(book) :
                                   Prefix3(book[j].symbol) = Prefix3(book[i].symbol)})
    IN  CHOOSE c \in {count(i) : i \in 1..Len(book)} :
            \A i \in 1..Len(book) : count(i) <= c

(* C21: get_risk_metrics returns a snapshot without raising, whatever the
   book; its total exposure is the sum of the open positions' sizes and its
   correlation risk is 0 with fewer than two open positions and (largest
   number of positions sharing a three-character prefix - 1) / (number of
   positions) with two or more; the call changes neither the book nor the
   history. *)
C21_MetricsSnapshot ==
    /\ [](Measured =>
            /\ result.exc = "none"
            /\ result.total_exposure = RSum([i \in 1..Len(positions) |-> positions[i].size])
            /\ result.correlation_risk =
                  IF Len(positions) < 2 THEN I(0)
                  ELSE Q(MaxSamePrefix(positions) - 1, Len(positions)))
    /\ [][call'.op = "get_risk_metrics" =>
             (positions' = positions /\ historical_returns' = historical_returns)]_vars

(* C22: a get_risk_metrics call that returns reports the 95% VaR as
   -risk_per_trade when the history holds fewer than 20 returns and as the
   5th percentile of the history when it holds 20 or more, exactly 20
   included. *)
C22_VarFromTwentyReturns ==
    (Measured /\ result.exc = "none") =>
        result.portfolio_var =
            IF Len(historical_returns) < 20 THEN RNeg(risk_per_trade)
            ELSE percentile(historical_returns, 5)

\* Two prices are within 5% of each other, measured against either of them.
Within5Percent(a, b) ==
    /\ RLe(RAbs(RSub(a, b)), RMul(Q(5, 100), a))
    /\ RLe(RAbs(RSub(a, b)), RMul(Q(5, 100), b))

\* The share of the agreement score that two prices contribute, as claimed.
FullWithin5Percent(a, b) ==
    LET term == price_agreement(a, b)
    IN  /\ RLe(a, I(0)) \/ RLe(b, I(0)) => term = I(0)
        /\ RGt(a, I(0)) /\ RGt(b, I(0)) =>
              /\ Within5Percent(a, b) => term = Q(2, 10)
              /\ RLt(term, Q(2, 10)) => ~Within5Percent(a, b)

(* C23: in the agreement score of the two opinions consulted, the
   target-price term and the stop-loss term are each the full weight 0.2
   whenever the two prices are within 5% of each other, less than 0.2 only
   when they differ by more than 5%, and 0 when either price is not
   positive. *)
C23_FullCreditWithin5Percent ==
    Consulted =>
        /\ FullWithin5Percent(call.gpt4_analysis.target_price,
                              call.claude_analysis.target_price)
        /\ FullWithin5Percent(call.gpt4_analysis.stop_loss,
                              call.claude_analysis.stop_loss)

BuyCount == signal_count(call.technical_signals, "BUY")
SellCount == signal_count(call.technical_signals, "SELL")
MeanStrength ==
    RDiv(RSum([i \in 1..Len(call.technical_signals) |->
                 call.technical_signals[i].strength]),
         I(Len(call.technical_signals)))

(* C24 as claimed: for a non-empty list of technical signals the technical
   validation is max(BUY count, SELL count) / (number of signals) * mean
   strength, also when the two counts are equal; for an empty list it is
   0.5. *)
C24_MajorityShare ==
    Consulted =>
        TechnicalValidation =
            IF call.technical_signals = <<>> THEN Q(1, 2)
            ELSE RMul(Q(IF BuyCount > SellCount THEN BuyCount ELSE SellCount,
                        Len(call.technical_signals)),
                      MeanStrength)

(* C24 amended: for a non-empty list of technical signals the technical
   validation is max(BUY count, SELL count) / (number of signals) * mean
   strength when the BUY and SELL counts differ, and 0.5 * mean strength
   when they are equal (all signals NEUTRAL included); for an empty list it
   is 0.5. *)
C24_MajorityShareOrHalf ==
    Consulted =>
        TechnicalValidation =
            IF call.technical_signals = <<>> THEN Q(1, 2)
            ELSE IF BuyCount # SellCount
                 THEN RMul(Q(IF BuyCount > SellCount THEN BuyCount ELSE SellCount,
                             Len(call.technical_signals)),
                           MeanStrength)
            ELSE RMul(Q(1, 2), MeanStrength)

\* One BUY, one SELL and one NEUTRAL signal: the counts are equal, the
\* larger count is a third of the signals, and the validation is not 0.
C24_Witness ==
    /\ Consulted
    /\ BuyCount = 1 /\ SellCount = 1 /\ Len(call.technical_signals) = 3
    /\ TechnicalValidation = Q(1, 4)

(* C25: in a run where add_position follows only an accepting
   validate_trade of the same recommendation, no two open positions hold
   the same symbol or symbols with the same first three characters. *)
C25_NoCorrelatedPair ==
    \A i, j \in 1..Len(positions) :
        i # j => Prefix3(positions[i].symbol) # Prefix3(positions[j].symbol)

\* With BTCUSDT among two open positions, BTCBUSD has just been refused for
\* its correlation.
C25_Witness ==
    /\ Returned
    /\ Len(positions) = 2
    /\ \E i \in 1..Len(positions) : positions[i].symbol = BTCUSDT
    /\ call.recommendation.symbol = BTCBUSD
    /\ result.reason = "High correlation with existing positions"

(* C26: for every trade validate_trade accepts, the loss at the stop-loss
   stays within the per-trade risk budget: accepted amount * (stop distance
   from the current price / current price) <= account balance *
   risk_per_trade. *)
C26_LossWithinBudget ==
    (Returned /\ result.ok) =>
        RLe(RMul(result.size, StopDistance),
            RMul(call.account_balance, risk_per_trade))

\* A trade accepted at a current price away from its entry price whose loss
\* at the stop is the whole budget of the balance 1000, and so 20.
C26_Witness ==
    /\ Returned
    /\ result.ok
    /\ call.account_balance = I(1000)
    /\ RMul(result.size, StopDistance) = I(20)
    /\ call.current_price # call.recommendation.entry_price

\* The task has just been ended by this exception.
Fails(t, exc) == result'[t].exc = exc /\ call'[t].at = "failed" /\ call[t].at # "failed"

(* C27: a position's return is recorded at most once, also when
   monitor_positions cycles overlap: a close_position of a position that is
   no longer in the book raises before anything is appended and leaves
   book and history as they were, every return appended goes with one
   position leaving the book, and no position enters the book, so two
   cycles that report the same position record one return for it. *)
C27_ReturnRecordedOnce ==
    [][/\ \A t \in Tasks :
             Fails(t, "ValueError") =>
                 (historical_returns' = historical_returns /\ positions' = positions)
       /\ Len(positions') <= Len(positions)
       /\ Len(historical_returns') - Len(historical_returns)
             = Len(positions) - Len(positions')
       /\ SubSeq(historical_returns', 1, Len(historical_returns)) = historical_returns
       /\ \A j \in 1..Len(positions') : \E k \in 1..Len(positions) :
             positions[k].entry_time = positions'[j].entry_time
      ]_vars

\* Both cycles were given the same position to close; one closed it and
\* recorded its return, the other's close_position raised.
C27_Witness ==
    /\ Len(historical_returns) = 1
    /\ \E t, u \in Tasks :
          /\ call[t].at = "failed"
          /\ result[t].exc = "ValueError"
          /\ call[u].at = "finished"
          /\ ~call[u].alone

\* The position's price lies strictly between its stop-loss and its
\* take-profit level.
BetweenLevels(position) ==
    IF position.side = "LONG"
    THEN RLt(position.stop_loss, position.current_price)
         /\ RLt(position.current_price, position.take_profit)
    ELSE RLt(position.take_profit, position.current_price)
         /\ RLt(position.current_price, position.stop_loss)

\* Task t completes its cycle in this step, no other task having run since
\* the cycle began.
CompletesAlone(t) ==
    /\ InFlight(t)
    /\ call'[t].at = "finished"
    /\ call[t].alone

(* C28: when a monitor_positions cycle (update_positions, the exit check,
   close_position of every reported position, apply_trailing_stop) has run
   through, every position left in the book has its current price strictly
   between its stop-loss and its take-profit: stop < price < take-profit
   for a LONG, take-profit < price < stop for a SHORT.  The trailing stop
   that ends the cycle leaves no exit condition behind. *)
C28_NoExitLeftAfterCycle ==
    [][\A t \in Tasks :
          CompletesAlone(t) =>
              \A i \in 1..Len(positions') : BetweenLevels(positions'[i])]_vars

\* A cycle has run through alone and left a position whose stop it has
\* trailed away from the level it was opened with.
C28_Witness ==
    \E t \in Tasks :
        /\ call[t].at = "finished"
        /\ call[t].alone
        /\ \A u \in Tasks : ~InFlight(u)
        /\ \E i \in 1..Len(positions) :
              /\ positions[i].side = "SHORT"
              /\ positions[i].stop_loss = RMul(positions[i].current_price, Q(103, 100))

\* The sum of the two opinions' values on the scale from -2 to 2.
OpinionSum ==
    rec_map(call.gpt4_analysis.recommendation)
        + rec_map(call.claude_analysis.recommendation)

(* C29: the technical signals never overrule the opinions' direction: a
   LONG recommendation is returned only when the two opinions' scale values
   sum to at least 1, a SHORT only when they sum to at most -1; opinions
   whose values cancel or are both NEUTRAL get no recommendation. *)
C29_OpinionsSetDirection ==
    Consulted =>
        /\ (RecommendationReturned /\ result.val.action = "LONG") => OpinionSum >= 1
        /\ (RecommendationReturned /\ result.val.action = "SHORT") => OpinionSum =< -1
        /\ OpinionSum = 0 => result = NoRecommendation

\* A LONG is returned on the weakest lead the opinions can have, a BUY
\* next to a NEUTRAL, with every signal a BUY.
C29_Witness ==
    /\ Consulted
    /\ RecommendationReturned
    /\ result.val.action = "LONG"
    /\ OpinionSum = 1
    /\ call.technical_signals = BullishSignals

\* The same call with the two opinions exchanged, at the same clock reading.
SwappedResult ==
    generate_consensus(call.claude_analysis, call.gpt4_analysis,
                       call.technical_signals, call.sentiment_data,
                       call.market_data, call.current_price,
                       IF RecommendationReturned THEN result.val.timestamp ELSE now)

SwappedAgreementScore ==
    _calculate_agreement_score(call.claude_analysis, call.gpt4_analysis)

SwappedOverallConfidence ==
    _calculate_overall_confidence(call.claude_analysis, call.gpt4_analysis,
                                  SwappedAgreementScore, TechnicalValidation,
                                  SentimentValidation)

(* C30: the consensus does not depend on which opinion is passed first:
   with the two opinions exchanged the agreement score, the overall
   confidence, the returned action and the trade parameters are the
   same. *)
C30_OrderOfOpinions ==
    Consulted =>
        /\ SwappedAgreementScore = AgreementScore
        /\ SwappedOverallConfidence = OverallConfidence
        /\ SwappedResult.exc = result.exc
        /\ result.exc = "none" =>
              /\ SwappedResult.returned = result.returned
              /\ result.returned = "TradeRecommendation" =>
                    /\ SwappedResult.val.action = result.val.action
                    /\ SwappedResult.val.entry_price = result.val.entry_price
                    /\ SwappedResult.val.target_price = result.val.target_price
                    /\ SwappedResult.val.stop_loss = result.val.stop_loss
                    /\ SwappedResult.val.position_size_percent
                          = result.val.position_size_percent
                    /\ SwappedResult.val.expected_return = result.val.expected_return
                    /\ SwappedResult.val.risk_reward_ratio
                          = result.val.risk_reward_ratio

=============================================================================
